---------------------------- MODULE Spec2Model ----------------------------
(***************************************************************************)
(* Symbolic engine for multi-valued logical networks: symbolic domains,    *)
(* the compiler of prioritised update tables into bit-answering BDDs, the  *)
(* per-variable transition relations, the asynchronous image operators     *)
(* and the saturation reachability / weak-SCC drivers.                     *)
(*                                                                         *)
(* A Bdd is modelled by the Boolean function it denotes: the set of total  *)
(* valuations of the BDD variables that satisfy it.  A valuation is the    *)
(* set of the BDD variables it makes true; BDD variables are numbered      *)
(* 1..num_vars in the order the builder allocated them.                    *)
(***************************************************************************)
EXTENDS Naturals, Integers, Sequences, FiniteSets, TLC

VARIABLES
    model,        \* the input map: variable name -> unprocessed update function
    system,       \* the SmartSystemUpdateFn built from it
    update_fns,   \* the compiled update functions, in variable order
    pc,           \* position of the caller
    call,         \* the last image-operator call: [op, variable, set]
    image,        \* what that call returned
    call2,        \* a second image-operator call (duality checks)
    image2,       \* what the second call returned
    reach,        \* the running reach_fwd / reach_bwd: [dir, initial, result, pos, caller]
    first_result, \* what the previous top-level reachability call returned
    bench,        \* reachability_benchmark: [universe, pivot, weak_scc, emitted]
    step,         \* the ComputationStep: [steps, universe, result, system] per encoding
    domains,      \* symbolic domains under test: the variable set, the domains, the last call
    construction  \* the running from_update_fns: its position and the locals built so far

vars == <<model, system, update_fns, pc, call, image, call2, image2,
          reach, first_result, bench, step, domains, construction>>

-----------------------------------------------------------------------------
(* Bounds of the checked instances *)

\* largest number of bit patterns in a set handed to an image operator
MaxSetSize == 2

-----------------------------------------------------------------------------
(* Generic helpers *)

Range(f) == {f[i] : i \in DOMAIN f}

Indices(s) == 1..Len(s)

RECURSIVE FoldSeq(_, _, _)
\* left fold of a sequence: FoldSeq(Op, acc, <<a, b>>) = Op(Op(acc, a), b)
FoldSeq(Op(_, _), acc, s) ==
    IF s = <<>> THEN acc ELSE FoldSeq(Op, Op(acc, Head(s)), Tail(s))

Reverse(s) == [i \in Indices(s) |-> s[Len(s) + 1 - i]]

MaxOf(S) == CHOOSE x \in S : \A y \in S : y <= x

-----------------------------------------------------------------------------
(* Variable names: strings over a small alphabet, kept as character        *)
(* sequences so that the order and the reserved prime are computable.      *)

Tick == "'"

CharCode(c) ==
    CASE c = "'" -> 39
      [] c = "A" -> 65
      [] c = "B" -> 66
      [] c = "X" -> 88

RECURSIVE StrLess(_, _)
\* the order of String: lexicographic by character, a proper prefix first
StrLess(a, b) ==
    IF b = <<>> THEN FALSE
    ELSE IF a = <<>> THEN TRUE
    ELSE IF CharCode(Head(a)) # CharCode(Head(b))
         THEN CharCode(Head(a)) < CharCode(Head(b))
         ELSE StrLess(Tail(a), Tail(b))

NameContains(name, c) == \E i \in Indices(name) : name[i] = c

PrimedName(name) == Append(name, Tick)

RECURSIVE SortedByName(_)
\* the names of a set in ascending order
SortedByName(S) ==
    IF S = {} THEN <<>>
    ELSE LET least == CHOOSE n \in S : \A o \in S \ {n} : StrLess(n, o)
         IN  <<least>> \o SortedByName(S \ {least})

-----------------------------------------------------------------------------
(* The BDD library, by denotation *)

BddVariables(vs) == 1..vs.num_vars

AllValuations(vs) == SUBSET BddVariables(vs)

MkTrue(vs) == AllValuations(vs)

MkFalse(vs) == {}

MkVar(vs, v) == {a \in AllValuations(vs) : v \in a}

BddAnd(f, g) == f \cap g

BddOr(f, g) == f \cup g

BddNot(vs, f) == AllValuations(vs) \ f

BddAndNot(f, g) == f \ g

\* an implication that takes its consequent for the false BDD
BddImpToFalse(vs, f, g) == {a \in AllValuations(vs) : a \notin f}

BddImp(vs, f, g) == {a \in AllValuations(vs) : a \in f => a \in g}

BddIff(vs, f, g) == {a \in AllValuations(vs) : (a \in f) <=> (a \in g)}

BddXor(vs, f, g) == {a \in AllValuations(vs) : (a \in f) # (a \in g)}

IsTrue(vs, f) == \A a \in AllValuations(vs) : a \in f

IsFalse(f) == f = {}

BddCardinality(f) == Cardinality(f)

\* existential quantification of the variables `bits`
BddExists(f, bits) ==
    LET projected == {a \ bits : a \in f}
    IN  {p \cup b : p \in projected, b \in SUBSET bits}

\* the BDD variables f depends on
SupportSet(vs, f) ==
    {v \in BddVariables(vs) :
        \E a \in f : ((a \ {v}) \notin f) \/ ((a \cup {v}) \notin f)}

\* Bdd::rename_variable: every decision node labelled old_id is relabelled new_id.
\* The call is sound when new_id is outside the support and no support variable lies
\* between the two; the result then reads new_id where the argument read old_id.
RenameVariable(f, old_id, new_id) ==
    {((a \ {old_id, new_id}) \cup (IF old_id \in a THEN {new_id} ELSE {})) \cup b :
        a \in f, b \in SUBSET {old_id}}

RenameIsSound(vs, f, old_id, new_id) ==
    LET support == SupportSet(vs, f)
        lo == IF old_id < new_id THEN old_id ELSE new_id
        hi == IF old_id < new_id THEN new_id ELSE old_id
    IN  /\ new_id \notin support
        /\ \A v \in support : ~(lo < v /\ v < hi)

(* BddPartialValuation: a function from some of the variables to BOOLEAN *)

EmptyValuation == <<>>

SetValue(p, v, b) == [w \in DOMAIN p \cup {v} |-> IF w = v THEN b ELSE p[w]]

MkConjunctiveClause(vs, p) ==
    {a \in AllValuations(vs) : \A v \in DOMAIN p : (v \in a) = p[v]}


-----------------------------------------------------------------------------
(* Symbolic domains.  A domain is [kind, variables]: the encoding and the   *)
(* ordered BDD variables that hold one integer of 0..max_value; the binary, *)
(* Gray-code and one-hot domains also keep max_value.  A builder is the     *)
(* sequence of the names of the BDD variables made so far.                  *)

MakeVariables(builder, name, count) ==
    [domain_variables |-> [i \in 1..count |-> Len(builder) + i],
     builder |-> builder \o [i \in 1..count |-> <<name, i>>]]

\* a unary domain with one variable per value, max_value + 1 of them
UnaryIntegerDomainNewPerValue(builder, name, max_value) ==
    LET made == MakeVariables(builder, name, max_value + 1)
    IN  [domain |-> [kind |-> "unary", variables |-> made.domain_variables],
         builder |-> made.builder]

\* UnaryIntegerDomain::new: max_value variables, named name_v1 .. name_v<max>
UnaryIntegerDomainNew(builder, name, max_value) ==
    LET made == MakeVariables(builder, name, max_value)
    IN  [domain |-> [kind |-> "unary", variables |-> made.domain_variables],
         builder |-> made.builder]

RECURSIVE Pow2(_)
\* 2^n
Pow2(n) == IF n = 0 THEN 1 ELSE 2 * Pow2(n - 1)

\* bit i (from 0) of the positional notation of value
BitOf(value, i) == (value \div Pow2(i)) % 2 = 1

\* the least width w with 2^w >= max_value + 1
BinaryWidth(max_value) ==
    CHOOSE w \in 0..(max_value + 1) :
        /\ Pow2(w) >= max_value + 1
        /\ \A u \in 0..(max_value + 1) : Pow2(u) >= max_value + 1 => w <= u

\* BinaryIntegerDomain::new: ceil(log2(max + 1)) variables
BinaryIntegerDomainNew(builder, name, max_value) ==
    LET made == MakeVariables(builder, name, BinaryWidth(max_value))
    IN  [domain |-> [kind |-> "binary", variables |-> made.domain_variables,
                     max_value |-> max_value],
         builder |-> made.builder]

\* GrayCodeIntegerDomain::new: the width of the binary domain
GrayCodeIntegerDomainNew(builder, name, max_value) ==
    LET made == MakeVariables(builder, name, BinaryWidth(max_value))
    IN  [domain |-> [kind |-> "gray", variables |-> made.domain_variables,
                     max_value |-> max_value],
         builder |-> made.builder]

\* PetriNetIntegerDomain::new: max_value + 1 variables, one per value
PetriNetIntegerDomainNew(builder, name, max_value) ==
    LET made == MakeVariables(builder, name, max_value + 1)
    IN  [domain |-> [kind |-> "petri_net", variables |-> made.domain_variables,
                     max_value |-> max_value],
         builder |-> made.builder]

\* D::new for the domain type D the system is instantiated with
DomainNew(kind, builder, name, max_value) ==
    CASE kind = "unary" -> UnaryIntegerDomainNew(builder, name, max_value)
      [] kind = "binary" -> BinaryIntegerDomainNew(builder, name, max_value)
      [] kind = "gray" -> GrayCodeIntegerDomainNew(builder, name, max_value)
      [] kind = "petri_net" -> PetriNetIntegerDomainNew(builder, name, max_value)

SymbolicVariables(domain) == domain.variables

RawBddVariables(domain) == SymbolicVariables(domain)

SymbolicSize(domain) == Len(domain.variables)

\* an encode_bits that writes its variables into a fresh valuation
UnaryEncodeBitsIntoFresh(domain, bdd_valuation, value) ==
    LET Step(acc, k) == SetValue(acc, domain.variables[k], (k - 1) < value)
    IN  FoldSeq(Step, EmptyValuation, [k \in Indices(domain.variables) |-> k])

\* UnaryIntegerDomain::encode_bits: variable i (from 0) is set to i < value
UnaryEncodeBits(domain, bdd_valuation, value) ==
    LET Step(acc, k) == SetValue(acc, domain.variables[k], (k - 1) < value)
    IN  FoldSeq(Step, bdd_valuation, [k \in Indices(domain.variables) |-> k])

\* BinaryIntegerDomain::encode_bits: variable i (from 0) holds bit i of value
BinaryEncodeBits(domain, bdd_valuation, value) ==
    LET Step(acc, k) == SetValue(acc, domain.variables[k], BitOf(value, k - 1))
    IN  FoldSeq(Step, bdd_valuation, [k \in Indices(domain.variables) |-> k])

\* GrayCodeIntegerDomain::encode_bits: variable i holds bit i of the reflected
\* Gray code of value, value xor (value >> 1)
GrayCodeEncodeBits(domain, bdd_valuation, value) ==
    LET Step(acc, k) ==
            SetValue(acc, domain.variables[k], BitOf(value, k - 1) # BitOf(value, k))
    IN  FoldSeq(Step, bdd_valuation, [k \in Indices(domain.variables) |-> k])

\* PetriNetIntegerDomain::encode_bits: variable i (from 0) is set to i = value
PetriNetEncodeBits(domain, bdd_valuation, value) ==
    LET Step(acc, k) == SetValue(acc, domain.variables[k], (k - 1) = value)
    IN  FoldSeq(Step, bdd_valuation, [k \in Indices(domain.variables) |-> k])

EncodeBits(domain, bdd_valuation, value) ==
    CASE domain.kind = "unary" -> UnaryEncodeBits(domain, bdd_valuation, value)
      [] domain.kind = "binary" -> BinaryEncodeBits(domain, bdd_valuation, value)
      [] domain.kind = "gray" -> GrayCodeEncodeBits(domain, bdd_valuation, value)
      [] domain.kind = "petri_net" -> PetriNetEncodeBits(domain, bdd_valuation, value)

RECURSIVE UnaryDecodeFrom(_, _, _)
\* the loop of UnaryIntegerDomain::decode_bits, result counted from `result`;
\* "panic" when the valuation gives no value to the variable read
UnaryDecodeFrom(domain, bdd_valuation, result) ==
    IF result < Len(domain.variables)
    THEN LET variable == domain.variables[result + 1]
         IN  IF variable \notin DOMAIN bdd_valuation THEN "panic"
             ELSE IF ~bdd_valuation[variable] THEN result
             ELSE UnaryDecodeFrom(domain, bdd_valuation, result + 1)
    ELSE result

UnaryDecodeBits(domain, bdd_valuation) == UnaryDecodeFrom(domain, bdd_valuation, 0)

\* decode_bits of the other domains: the value whose encoding the valuation holds
DecodeByValues(domain, bdd_valuation) ==
    LET matching ==
            {v \in 0..domain.max_value :
                LET bits == EncodeBits(domain, EmptyValuation, v)
                IN  \A b \in DOMAIN bits :
                       b \in DOMAIN bdd_valuation /\ bdd_valuation[b] = bits[b]}
    IN  IF matching = {} THEN "panic" ELSE CHOOSE v \in matching : TRUE

DecodeBits(domain, bdd_valuation) ==
    IF domain.kind = "unary" THEN UnaryDecodeBits(domain, bdd_valuation)
    ELSE DecodeByValues(domain, bdd_valuation)

EmptyCollection(vs, domain) == MkFalse(vs)

\* a unit collection that is left at the true BDD: every bit pattern passes
UnaryUnitCollectionUnconstrained(vs, domain) == MkTrue(vs)

\* UnaryIntegerDomain::unit_collection: x_k implies x_{k-1} for k in 1..len
UnaryUnitCollection(vs, domain) ==
    LET Step(true_set, k) ==
            BddAnd(true_set,
                   BddImp(vs, MkVar(vs, domain.variables[k + 1]),
                              MkVar(vs, domain.variables[k])))
    IN  FoldSeq(Step, MkTrue(vs), [k \in 1..(Len(domain.variables) - 1) |-> k])

\* SymbolicDomain::encode_one (default method)
EncodeOne(vs, domain, value) ==
    MkConjunctiveClause(vs, EncodeBits(domain, EmptyValuation, value))

\* the disjunction of the encodings of the values of a set
EncodeValues(vs, domain, values) ==
    UNION {EncodeOne(vs, domain, v) : v \in values}

\* unit_collection of the binary and Gray domains: the encodings of 0..max_value
ValuesUnitCollection(vs, domain) ==
    EncodeValues(vs, domain, 0..domain.max_value)

\* PetriNetIntegerDomain::unit_collection: some variable is true and no two are
PetriNetUnitCollection(vs, domain) ==
    LET variables == Range(domain.variables)
        some == UNION {MkVar(vs, v) : v \in variables}
        pairs == {p \in variables \X variables : p[1] < p[2]}
    IN  {a \in some : \A p \in pairs : ~(p[1] \in a /\ p[2] \in a)}

UnitCollection(vs, domain) ==
    CASE domain.kind = "unary" -> UnaryUnitCollection(vs, domain)
      [] domain.kind \in {"binary", "gray"} -> ValuesUnitCollection(vs, domain)
      [] domain.kind = "petri_net" -> PetriNetUnitCollection(vs, domain)

\* raw_bdd_variables_encode: the bits encode_bits gives the domain's variables, in order
RawBddVariablesEncode(domain, value) ==
    LET valuation == EncodeBits(domain, EmptyValuation, value)
    IN  [k \in Indices(domain.variables) |-> valuation[domain.variables[k]]]

(* The ordered range encoders of the unary domain (SymbolicDomainOrd) *)

\* value <= k: variable x_{k+1} is false, or everything when k is the maximum or more
UnaryEncodeLe(vs, domain, k) ==
    IF k >= Len(domain.variables) THEN MkTrue(vs)
    ELSE BddNot(vs, MkVar(vs, domain.variables[k + 1]))

UnaryEncodeLt(vs, domain, k) ==
    IF k = 0 THEN MkFalse(vs) ELSE UnaryEncodeLe(vs, domain, k - 1)

\* the range encoders of the other domains: explicit disjunctions over the
\* values of the range
EncodeLe(vs, domain, k) ==
    IF domain.kind = "unary" THEN UnaryEncodeLe(vs, domain, k)
    ELSE EncodeValues(vs, domain, {v \in 0..domain.max_value : v <= k})

EncodeLt(vs, domain, k) ==
    IF domain.kind = "unary" THEN UnaryEncodeLt(vs, domain, k)
    ELSE EncodeValues(vs, domain, {v \in 0..domain.max_value : v < k})

EncodeGt(vs, domain, k) == BddNot(vs, EncodeLe(vs, domain, k))

EncodeGe(vs, domain, k) == BddNot(vs, EncodeLt(vs, domain, k))

\* SymbolicDomainOrd::cmp on u8
CmpLess(x, y) == x < y

-----------------------------------------------------------------------------
(* Expressions and unprocessed update functions.                           *)
(* A proposition is [variable, comparison_operator, value]; an expression  *)
(* is Terminal(proposition), Not(e), And(es), Or(es), Xor(l, r) or         *)
(* Implies(l, r); an update function is [terms, default] with terms a      *)
(* sequence of <<output, guard>>.                                          *)

Prop(variable, op, value) ==
    [variable |-> variable, comparison_operator |-> op, value |-> value]

Terminal(p) == [kind |-> "Terminal", proposition |-> p]

ENot(e) == [kind |-> "Not", expression |-> e]

EAnd(es) == [kind |-> "And", clauses |-> es]

EOr(es) == [kind |-> "Or", clauses |-> es]

EXor(l, r) == [kind |-> "Xor", lhs |-> l, rhs |-> r]

EImplies(l, r) == [kind |-> "Implies", lhs |-> l, rhs |-> r]

UpdateFn(terms, default) == [terms |-> terms, default |-> default]

\* variable_update_fn::bdd_from_proposition panics when the map has no such name
PropositionPanics(proposition, named_symbolic_domains) ==
    proposition.variable \notin DOMAIN named_symbolic_domains

RECURSIVE ExpressionPanics(_, _)
\* whether bdd_from_expression reaches a panicking proposition
ExpressionPanics(expression, named_symbolic_domains) ==
    CASE expression.kind = "Terminal" ->
           PropositionPanics(expression.proposition, named_symbolic_domains)
      [] expression.kind = "Not" ->
           ExpressionPanics(expression.expression, named_symbolic_domains)
      [] expression.kind \in {"And", "Or"} ->
           \E i \in Indices(expression.clauses) :
               ExpressionPanics(expression.clauses[i], named_symbolic_domains)
      [] expression.kind \in {"Xor", "Implies"} ->
           \/ ExpressionPanics(expression.lhs, named_symbolic_domains)
           \/ ExpressionPanics(expression.rhs, named_symbolic_domains)

\* variable_update_fn::bdd_from_proposition, the domain being present
BddFromProposition(proposition, named_symbolic_domains, vs) ==
    LET target_vars_domain == named_symbolic_domains[proposition.variable]
        op == proposition.comparison_operator
        value == proposition.value
    IN  CASE op = "Eq" -> EncodeOne(vs, target_vars_domain, value)
          [] op = "Neq" -> BddNot(vs, EncodeOne(vs, target_vars_domain, value))
          [] op = "Lt" -> EncodeLt(vs, target_vars_domain, value)
          [] op = "Leq" -> EncodeLe(vs, target_vars_domain, value)
          [] op = "Gt" -> EncodeGt(vs, target_vars_domain, value)
          [] op = "Geq" -> EncodeGe(vs, target_vars_domain, value)

RECURSIVE BddFromExpression(_, _, _)
\* variable_update_fn::bdd_from_expression
BddFromExpression(expression, named_symbolic_domains, vs) ==
    LET Sub(e) == BddFromExpression(e, named_symbolic_domains, vs)
        AndStep(acc, clausule) == BddAnd(acc, Sub(clausule))
        OrStep(acc, clausule) == BddOr(acc, Sub(clausule))
    IN  CASE expression.kind = "Terminal" ->
               BddFromProposition(expression.proposition, named_symbolic_domains, vs)
          [] expression.kind = "Not" -> BddNot(vs, Sub(expression.expression))
          [] expression.kind = "And" ->
               FoldSeq(AndStep, MkTrue(vs), expression.clauses)
          [] expression.kind = "Or" ->
               FoldSeq(OrStep, MkFalse(vs), expression.clauses)
          [] expression.kind = "Xor" ->
               BddXor(vs, Sub(expression.lhs), Sub(expression.rhs))
          [] expression.kind = "Implies" ->
               BddImp(vs, Sub(expression.lhs), Sub(expression.rhs))

\* a fold that keeps every guard whole: overlapping terms all fire
OverlappingTerms(vs, bdd_conds) == bdd_conds

\* the running-exclusion fold of from_update_fn: term j keeps the states of its
\* guard that no earlier guard has seen
MutuallyExclusiveTerms(vs, bdd_conds) ==
    LET Step(ctx, term_bdd) ==
            [seen_states |-> BddOr(ctx.seen_states, term_bdd),
             acc |-> Append(ctx.acc, BddAnd(term_bdd, BddNot(vs, ctx.seen_states)))]
    IN  FoldSeq(Step, [seen_states |-> MkFalse(vs), acc |-> <<>>], bdd_conds).acc

\* whether from_update_fn panics: some guard names a variable with no domain
FromUpdateFnPanics(update_fn, named_symbolic_domains) ==
    \E j \in Indices(update_fn.terms) :
        ExpressionPanics(update_fn.terms[j][2], named_symbolic_domains)

\* VariableUpdateFn::from_update_fn: the sequence of <<bdd variable, bit-answering bdd>>
FromUpdateFn(update_fn, target_variable_name, vs, named_symbolic_domains) ==
    LET terms == update_fn.terms
        outputs == [j \in Indices(terms) |-> terms[j][1]] \o <<update_fn.default>>
        bdd_conds ==
            [j \in Indices(terms) |->
                BddFromExpression(terms[j][2], named_symbolic_domains, vs)]
            \o <<MkTrue(vs)>>
    IN
        LET values_mutally_exclusive_terms == MutuallyExclusiveTerms(vs, bdd_conds)
            target_domain == named_symbolic_domains[target_variable_name]
            bit_matrix ==
                [j \in Indices(outputs) |-> RawBddVariablesEncode(target_domain, outputs[j])]
            BitAnswer(bit_idx) ==
                LET Step(acc, row_idx) ==
                        IF bit_matrix[row_idx][bit_idx]
                        THEN BddOr(acc, values_mutally_exclusive_terms[row_idx])
                        ELSE acc
                IN  FoldSeq(Step, MkFalse(vs), [r \in Indices(bit_matrix) |-> r])
        IN  [bit_idx \in Indices(bit_matrix[1]) |->
                <<RawBddVariables(target_domain)[bit_idx], BitAnswer(bit_idx)>>]


-----------------------------------------------------------------------------
(* SmartSystemUpdateFn::from_update_fns *)

\* update_from_proposition: widen the entry of the compared variable, or insert it
UpdateFromProposition(acc, proposition) ==
    LET variable == proposition.variable
        value == proposition.value
    IN  IF variable \in DOMAIN acc
        THEN [acc EXCEPT ![variable] = IF CmpLess(@, value) THEN value ELSE @]
        ELSE acc @@ (variable :> value)

\* an update_max that looks at a guard only when it is a single proposition
UpdateMaxOfTerminals(acc, expr) ==
    IF expr.kind = "Terminal" THEN UpdateFromProposition(acc, expr.proposition)
    ELSE acc

RECURSIVE UpdateMax(_, _)
\* update_max: visit every proposition of the expression
UpdateMax(acc, expr) ==
    CASE expr.kind = "Terminal" -> UpdateFromProposition(acc, expr.proposition)
      [] expr.kind = "Not" -> UpdateMax(acc, expr.expression)
      [] expr.kind \in {"And", "Or"} -> FoldSeq(UpdateMax, acc, expr.clauses)
      [] expr.kind \in {"Xor", "Implies"} -> UpdateMax(UpdateMax(acc, expr.lhs), expr.rhs)

\* the guards of one update function, in term order
GuardsOf(update_fn) == [j \in Indices(update_fn.terms) |-> update_fn.terms[j][2]]

\* find_max_values: per variable the largest output or default, then widened by
\* every literal a guard compares the variable against
FindMaxValues(named_update_fns_sorted) ==
    LET MaxOutput(update_fn) ==
            MaxOf({update_fn.terms[j][1] : j \in Indices(update_fn.terms)}
                  \cup {update_fn.default})
        InsertMax(acc, named) == (named[1] :> MaxOutput(named[2])) @@ acc
        max_outputs == FoldSeq(InsertMax, <<>>, named_update_fns_sorted)
        AllGuards(acc, named) == acc \o GuardsOf(named[2])
        guards == FoldSeq(AllGuards, <<>>, named_update_fns_sorted)
    IN  FoldSeq(UpdateMax, max_outputs, guards)

\* the input map as the vector sorted by variable name
NamedUpdateFnsSorted(vars_and_their_update_fns) ==
    LET names == SortedByName(DOMAIN vars_and_their_update_fns)
    IN  [i \in Indices(names) |-> <<names[i], vars_and_their_update_fns[names[i]]>>]

\* for each variable in name order: its unprimed domain, then its primed domain
AllocateDomains(kind, named_update_fns_sorted, max_values) ==
    LET Step(ctx, named) ==
            LET var_name == named[1]
                max_value == max_values[var_name]
                original == DomainNew(kind, ctx.builder, var_name, max_value)
                primed == DomainNew(kind, original.builder, PrimedName(var_name), max_value)
            IN  [named_symbolic_domains |->
                    Append(ctx.named_symbolic_domains,
                           [name |-> var_name, domain |-> original.domain,
                            primed_name |-> PrimedName(var_name),
                            primed_domain |-> primed.domain]),
                 builder |-> primed.builder]
    IN  FoldSeq(Step, [named_symbolic_domains |-> <<>>, builder |-> <<>>],
                named_update_fns_sorted)

BuildVariableSet(builder) == [num_vars |-> Len(builder), names |-> builder]

\* name -> domain, for the unprimed and the primed names alike
NamedSymbolicDomainsMap(named_symbolic_domains) ==
    LET Step(acc, d) ==
            (d.name :> d.domain) @@ (d.primed_name :> d.primed_domain) @@ acc
    IN  FoldSeq(Step, <<>>, named_symbolic_domains)

\* the conjunction of the unit collections of the unprimed domains
UnitSet(vs, named_symbolic_domains) ==
    LET Step(acc, d) == BddAnd(acc, UnitCollection(vs, d.domain))
    IN  FoldSeq(Step, MkTrue(vs), named_symbolic_domains)

\* a relation that starts from the true BDD instead of unit_set
TransitionRelationWithoutUnitSet(vs, unit_set, bit_answering_bdds, primed_domain) ==
    LET Step(acc, k) ==
            BddAnd(acc, BddIff(vs, MkVar(vs, RawBddVariables(primed_domain)[k]),
                                   bit_answering_bdds[k][2]))
        relation == FoldSeq(Step, MkTrue(vs), [k \in Indices(bit_answering_bdds) |-> k])
    IN  BddAnd(relation, UnitCollection(vs, primed_domain))

\* a relation that binds the first primed bit only
TransitionRelationOfFirstBit(vs, unit_set, bit_answering_bdds, primed_domain) ==
    LET Step(acc, k) ==
            BddAnd(acc, BddIff(vs, MkVar(vs, RawBddVariables(primed_domain)[k]),
                                   bit_answering_bdds[k][2]))
        zipped == IF Len(bit_answering_bdds) < 1 THEN Len(bit_answering_bdds) ELSE 1
        relation == FoldSeq(Step, unit_set, [k \in 1..zipped |-> k])
    IN  BddAnd(relation, UnitCollection(vs, primed_domain))

\* one relation of from_update_fns: unit_set, each primed bit bound to its
\* bit-answering BDD, and the primed unit collection of the target variable
TransitionRelation(vs, unit_set, bit_answering_bdds, primed_domain) ==
    LET Step(acc, k) ==
            BddAnd(acc, BddIff(vs, MkVar(vs, RawBddVariables(primed_domain)[k]),
                                   bit_answering_bdds[k][2]))
        zipped ==
            IF Len(bit_answering_bdds) < SymbolicSize(primed_domain)
            THEN Len(bit_answering_bdds) ELSE SymbolicSize(primed_domain)
        relation == FoldSeq(Step, unit_set, [k \in 1..zipped |-> k])
    IN  BddAnd(relation, UnitCollection(vs, primed_domain))

\* a name check that lets every name through
NoNameReserved(vars_and_their_update_fns) == FALSE

\* the names from_update_fns rejects
ReservedNameUsed(vars_and_their_update_fns) ==
    \E name \in DOMAIN vars_and_their_update_fns : NameContains(name, Tick)

\* the locals of from_update_fns up to the compiled update functions
Compiled(kind, vars_and_their_update_fns) ==
    LET named_update_fns_sorted == NamedUpdateFnsSorted(vars_and_their_update_fns)
        max_values == FindMaxValues(named_update_fns_sorted)
        allocated == AllocateDomains(kind, named_update_fns_sorted, max_values)
        bdd_variable_set == BuildVariableSet(allocated.builder)
        named_symbolic_domains_map ==
            NamedSymbolicDomainsMap(allocated.named_symbolic_domains)
        panics ==
            \/ ReservedNameUsed(vars_and_their_update_fns)
            \/ \E i \in Indices(named_update_fns_sorted) :
                   FromUpdateFnPanics(named_update_fns_sorted[i][2],
                                      named_symbolic_domains_map)
    IN  [panicked |-> panics,
         max_values |-> max_values,
         named_symbolic_domains |-> allocated.named_symbolic_domains,
         bdd_variable_set |-> bdd_variable_set,
         unit_set |-> UnitSet(bdd_variable_set, allocated.named_symbolic_domains),
         update_fns |->
            IF panics THEN <<>>
            ELSE [i \in Indices(named_update_fns_sorted) |->
                    FromUpdateFn(named_update_fns_sorted[i][2],
                                 named_update_fns_sorted[i][1],
                                 bdd_variable_set, named_symbolic_domains_map)]]

\* the tail of from_update_fns: the relations and the name -> index map, from the
\* locals c computed so far
SystemOf(c) ==
    IF c.panicked
    THEN [panicked |-> TRUE]
    ELSE [panicked |-> FALSE,
          mapper |->
             [name \in {c.named_symbolic_domains[i].name :
                           i \in Indices(c.named_symbolic_domains)} |->
                 CHOOSE i \in Indices(c.named_symbolic_domains) :
                     c.named_symbolic_domains[i].name = name],
          variables_transition_relation_and_domain |->
             [i \in Indices(c.named_symbolic_domains) |->
                 [name |-> c.named_symbolic_domains[i].name,
                  primed_name |-> c.named_symbolic_domains[i].primed_name,
                  domain |-> c.named_symbolic_domains[i].domain,
                  primed_domain |-> c.named_symbolic_domains[i].primed_domain,
                  transition_relation |->
                     TransitionRelation(c.bdd_variable_set, c.unit_set, c.update_fns[i],
                                        c.named_symbolic_domains[i].primed_domain)]],
          bdd_variable_set |-> c.bdd_variable_set]

\* SmartSystemUpdateFn::from_update_fns
FromUpdateFns(kind, vars_and_their_update_fns) ==
    SystemOf(Compiled(kind, vars_and_their_update_fns))

GetSystemVariables(sys) ==
    [i \in Indices(sys.variables_transition_relation_and_domain) |->
        sys.variables_transition_relation_and_domain[i].name]

GetTransitionRelationAndDomain(sys, variable_name) ==
    sys.variables_transition_relation_and_domain[sys.mapper[variable_name]]

StandardVariables(sys) ==
    UNION {Range(RawBddVariables(sys.variables_transition_relation_and_domain[i].domain)) :
              i \in Indices(sys.variables_transition_relation_and_domain)}

PrimedVariables(sys) ==
    UNION {Range(RawBddVariables(
                     sys.variables_transition_relation_and_domain[i].primed_domain)) :
              i \in Indices(sys.variables_transition_relation_and_domain)}

\* SmartSystemUpdateFn::unit_vertex_set
UnitVertexSet(sys) ==
    LET Step(acc, it) == BddAnd(acc, UnitCollection(sys.bdd_variable_set, it.domain))
    IN  FoldSeq(Step, MkTrue(sys.bdd_variable_set),
                sys.variables_transition_relation_and_domain)

-----------------------------------------------------------------------------
(* Image operators *)

\* successors_async that leaves out the states of the source set (no self-loops)
SuccessorsAsyncWithoutSources(sys, transition_variable_name, source_states_set) ==
    LET info == GetTransitionRelationAndDomain(sys, transition_variable_name)
        unprimed == RawBddVariables(info.domain)
        primed == RawBddVariables(info.primed_domain)
        forgor_old_val ==
            BddExists(BddAnd(source_states_set, info.transition_relation), Range(unprimed))
        Step(acc, k) == RenameVariable(acc, primed[k], unprimed[k])
    IN  BddAndNot(FoldSeq(Step, forgor_old_val, [k \in Indices(unprimed) |-> k]),
                  source_states_set)

\* SmartSystemUpdateFn::successors_async
SuccessorsAsync(sys, transition_variable_name, source_states_set) ==
    LET info == GetTransitionRelationAndDomain(sys, transition_variable_name)
        unprimed == RawBddVariables(info.domain)
        primed == RawBddVariables(info.primed_domain)
        source_states_transition_relation ==
            BddAnd(source_states_set, info.transition_relation)
        forgor_old_val == BddExists(source_states_transition_relation, Range(unprimed))
        Step(acc, k) == RenameVariable(acc, primed[k], unprimed[k])
    IN  FoldSeq(Step, forgor_old_val, [k \in Indices(unprimed) |-> k])

\* predecessors_async that forgets to rename the source set to the primed bits
PredecessorsAsyncWithoutRename(sys, transition_variable_name, source_states_set) ==
    LET info == GetTransitionRelationAndDomain(sys, transition_variable_name)
    IN  BddExists(BddAnd(source_states_set, info.transition_relation),
                  Range(RawBddVariables(info.primed_domain)))

\* SmartSystemUpdateFn::predecessors_async
PredecessorsAsync(sys, transition_variable_name, source_states_set) ==
    LET info == GetTransitionRelationAndDomain(sys, transition_variable_name)
        unprimed == RawBddVariables(info.domain)
        primed == RawBddVariables(info.primed_domain)
        Step(acc, k) == RenameVariable(acc, unprimed[k], primed[k])
        source_states_primed_set ==
            FoldSeq(Step, source_states_set, Reverse([k \in Indices(unprimed) |-> k]))
        source_states_transition_relation ==
            BddAnd(source_states_primed_set, info.transition_relation)
    IN  BddExists(source_states_transition_relation, Range(primed))


-----------------------------------------------------------------------------
(* The input models of the checked instances *)

NameA == <<"A">>

NameB == <<"B">>

NameX == <<"X">>

T(variable, op, value) == Terminal(Prop(variable, op, value))

\* update functions for variable A of the two-variable models
PoolA ==
    { UpdateFn(<< <<1, T(NameB, "Eq", 0)>> >>, 0),
      UpdateFn(<< <<1, T(NameA, "Eq", 1)>> >>, 0),
      UpdateFn(<<>>, 1),
      UpdateFn(<< <<2, EAnd(<<T(NameA, "Geq", 1), T(NameB, "Eq", 1)>>)>>,
                  <<1, EOr(<<T(NameA, "Eq", 0), ENot(T(NameB, "Eq", 0))>>)>>,
                  <<0, EXor(T(NameA, "Neq", 2), T(NameB, "Lt", 1))>> >>, 2),
      UpdateFn(<< <<1, T(NameB, "Geq", 2)>> >>, 0) }

\* update functions for variable B of the two-variable models
PoolB ==
    { UpdateFn(<< <<1, T(NameA, "Eq", 1)>> >>, 0),
      UpdateFn(<< <<1, T(NameB, "Eq", 1)>> >>, 0),
      UpdateFn(<< <<1, EImplies(T(NameA, "Gt", 1), T(NameB, "Leq", 0))>> >>, 0),
      UpdateFn(<< <<2, T(NameA, "Leq", 0)>>, <<1, T(NameB, "Gt", 0)>> >>, 0) }

\* the two-variable toggle: A := (B = 0), B := (A = 1)
ToggleModel ==
    (NameA :> UpdateFn(<< <<1, T(NameB, "Eq", 0)>> >>, 0))
    @@ (NameB :> UpdateFn(<< <<1, T(NameA, "Eq", 1)>> >>, 0))

\* the three-valued saturator: X := min(X + 1, 2)
SaturatorModel ==
    (NameX :> UpdateFn(<< <<2, T(NameX, "Geq", 2)>>, <<2, T(NameX, "Geq", 1)>> >>, 1))

\* a three-valued counter whose second guard is shadowed by the first at X = 2
CounterModel ==
    (NameX :> UpdateFn(<< <<0, T(NameX, "Geq", 2)>>, <<2, T(NameX, "Geq", 1)>> >>, 1))

\* one variable whose only value is 0
LoneModel == (NameX :> UpdateFn(<<>>, 0))

Models ==
    {(NameA :> fa) @@ (NameB :> fb) : fa \in PoolA, fb \in PoolB}
    \cup {SaturatorModel, CounterModel, LoneModel}

-----------------------------------------------------------------------------
(* The network semantics the engine is meant to compute, on explicit states. *)
(* A state maps every variable of the model to a value of its domain.        *)

MaxValues(m) == FindMaxValues(NamedUpdateFnsSorted(m))

States(m) ==
    LET max == MaxValues(m)
    IN  {s \in [DOMAIN m -> 0..MaxOf({max[n] : n \in DOMAIN m})] :
            \A n \in DOMAIN m : s[n] <= max[n]}

HoldsProp(s, p) ==
    LET x == s[p.variable]
        k == p.value
        op == p.comparison_operator
    IN  CASE op = "Eq" -> x = k
          [] op = "Neq" -> x # k
          [] op = "Lt" -> x < k
          [] op = "Leq" -> x <= k
          [] op = "Gt" -> x > k
          [] op = "Geq" -> x >= k

RECURSIVE Holds(_, _)
Holds(s, e) ==
    CASE e.kind = "Terminal" -> HoldsProp(s, e.proposition)
      [] e.kind = "Not" -> ~Holds(s, e.expression)
      [] e.kind = "And" -> \A i \in Indices(e.clauses) : Holds(s, e.clauses[i])
      [] e.kind = "Or" -> \E i \in Indices(e.clauses) : Holds(s, e.clauses[i])
      [] e.kind = "Xor" -> Holds(s, e.lhs) # Holds(s, e.rhs)
      [] e.kind = "Implies" -> Holds(s, e.lhs) => Holds(s, e.rhs)

\* the output of the earliest term whose guard holds at s, else the default
NextValue(update_fn, s) ==
    LET matching == {j \in Indices(update_fn.terms) : Holds(s, update_fn.terms[j][2])}
    IN  IF matching = {} THEN update_fn.default
        ELSE update_fn.terms[CHOOSE j \in matching : \A o \in matching : j <= o][1]

\* the state reached from s by one asynchronous step of variable v
StepOf(m, v, s) == [s EXCEPT ![v] = NextValue(m[v], s)]

\* the unprimed bits that encode state s in sys
PatternOf(sys, s) ==
    LET infos == sys.variables_transition_relation_and_domain
        Step(acc, it) == EncodeBits(it.domain, acc, s[it.name])
        valuation == FoldSeq(Step, EmptyValuation, infos)
    IN  {b \in DOMAIN valuation : valuation[b]}

\* the BDD over the unprimed bits that holds exactly the bit patterns of P
SetOfPatterns(sys, P) == {p \cup q : p \in P, q \in SUBSET PrimedVariables(sys)}

\* the BDD of a set of states
SetOfStates(sys, Q) == SetOfPatterns(sys, {PatternOf(sys, s) : s \in Q})

\* the states whose encoding satisfies f
StatesIn(m, sys, f) == {s \in States(m) : PatternOf(sys, s) \in f}

RECURSIVE SubsetsUpTo(_, _)
\* the subsets of S with at most k elements
SubsetsUpTo(S, k) ==
    IF k = 0 THEN {{}}
    ELSE LET smaller == SubsetsUpTo(S, k - 1)
         IN  smaller \cup {P \cup {x} : P \in smaller, x \in S}

\* the sets handed to the image operators: BDDs over the unprimed bits, bit
\* patterns outside the unit collection included
InputSets(sys) ==
    {SetOfPatterns(sys, P) : P \in SubsetsUpTo(SUBSET StandardVariables(sys), MaxSetSize)}

-----------------------------------------------------------------------------
(* Calls of the image operators on a constructed system *)

NoCall == [op |-> "none", variable |-> <<>>, set |-> {}]

NoReach == [dir |-> "none", initial |-> {}, result |-> {}, pos |-> 0, caller |-> "none"]

NoBench == [universe |-> {}, pivot |-> {}, weak_scc |-> {}, emitted |-> <<>>]

NoStep == [steps |-> 0, universe |-> <<>>, result |-> <<>>, system |-> <<>>]

NoDomains == [op |-> "none"]

NoConstruction == [stage |-> "none"]

\* the state after construction of the system from one of the input models
Constructed ==
    /\ model \in Models
    /\ system = FromUpdateFns("unary", model)
    /\ update_fns = Compiled("unary", model).update_fns
    /\ pc = "ready"
    /\ call = NoCall
    /\ image = {}
    /\ call2 = NoCall
    /\ image2 = {}
    /\ reach = NoReach
    /\ first_result = {}
    /\ bench = NoBench
    /\ step = NoStep
    /\ domains = NoDomains
    /\ construction = NoConstruction

InitImage == Constructed

CallSuccessorsAsync ==
    /\ pc = "ready"
    /\ \E v \in DOMAIN model, S \in InputSets(system) :
        /\ call' = [op |-> "successors_async", variable |-> v, set |-> S]
        /\ image' = SuccessorsAsync(system, v, S)
    /\ pc' = "returned"
    /\ UNCHANGED <<domains, construction, step, model, system, update_fns, call2, image2, reach, first_result, bench>>

CallPredecessorsAsync ==
    /\ pc = "ready"
    /\ \E v \in DOMAIN model, S \in InputSets(system) :
        /\ call' = [op |-> "predecessors_async", variable |-> v, set |-> S]
        /\ image' = PredecessorsAsync(system, v, S)
    /\ pc' = "returned"
    /\ UNCHANGED <<domains, construction, step, model, system, update_fns, call2, image2, reach, first_result, bench>>

NextImage == CallSuccessorsAsync \/ CallPredecessorsAsync

SpecImage == InitImage /\ [][NextImage]_vars

-----------------------------------------------------------------------------
\* C1: successors_async(V, S) is exactly the set of the states s[V := update_V(s)]
\* for the valid states s of S: the other variables keep their values, V takes the
\* value of its update function, and states that map to themselves are included.
SuccessorsAreAsyncSteps ==
    (pc = "returned" /\ call.op = "successors_async") =>
        image = SetOfStates(system,
                    {StepOf(model, call.variable, s) :
                        s \in StatesIn(model, system, call.set)})


\* witness of C1: a set with a state that V's step leaves in place and one it moves
SuccessorsWitness ==
    /\ pc = "returned" /\ call.op = "successors_async"
    /\ \E s, t \in StatesIn(model, system, call.set) :
        /\ StepOf(model, call.variable, s) = s
        /\ StepOf(model, call.variable, t) # t
        /\ PatternOf(system, s) \in image

-----------------------------------------------------------------------------
\* C10: for every BDD S over the unprimed variables, bit patterns outside the unit
\* collection included, successors_async(V, S) and predecessors_async(V, S) are
\* subsets of unit_vertex_set().
ImagesAreValid ==
    pc = "returned" => image \subseteq UnitVertexSet(system)

\* witness of C10: a call of each operator on a set holding an invalid bit pattern
\* beside a valid state, with a non-empty image
ImagesAreValidWitness ==
    /\ pc = "returned"
    /\ call.op = "predecessors_async"
    /\ ~(call.set \subseteq UnitVertexSet(system))
    /\ call.set \cap UnitVertexSet(system) # {}
    /\ image # {}

-----------------------------------------------------------------------------
\* C3: for every valid state s and every bit index i of V's encoding, the i-th
\* bit-answering BDD is true at s iff bit i of the encoding of out(s) is 1, out(s)
\* being the output of the earliest term whose guard holds at s or else the
\* default; and there are as many bit-answering BDDs as V's domain has bits.
BitAnsweringBddsAnswer ==
    \A i \in Indices(update_fns) :
        LET info == system.variables_transition_relation_and_domain[i]
            answers == update_fns[i]
        IN  /\ Len(answers) = SymbolicSize(info.domain)
            /\ \A s \in States(model), k \in Indices(answers) :
                 LET bits == RawBddVariablesEncode(info.domain,
                                                   NextValue(model[info.name], s))
                 IN  \A q \in SUBSET PrimedVariables(system) :
                        ((PatternOf(system, s) \cup q) \in answers[k][2]) <=> bits[k]

\* witness of C3: a state at which two guards with different outputs hold, so
\* that the order of the terms decides the bits
BitAnsweringWitness ==
    \E i \in Indices(update_fns) :
        LET info == system.variables_transition_relation_and_domain[i]
            terms == model[info.name].terms
        IN  /\ Len(update_fns[i]) > 1
            /\ \E s \in States(model), j, l \in Indices(terms) :
                 /\ j < l
                 /\ Holds(s, terms[j][2]) /\ Holds(s, terms[l][2])
                 /\ terms[j][1] # terms[l][1]

-----------------------------------------------------------------------------
(* A successors call on one state followed by a predecessors call on one state *)

SuccessorsOfState ==
    /\ pc = "ready"
    /\ \E v \in DOMAIN model, s \in States(model) :
        /\ call' = [op |-> "successors_async", variable |-> v,
                    set |-> SetOfStates(system, {s})]
        /\ image' = SuccessorsAsync(system, v, SetOfStates(system, {s}))
    /\ pc' = "first"
    /\ UNCHANGED <<domains, construction, step, model, system, update_fns, call2, image2, reach, first_result, bench>>

PredecessorsOfState ==
    /\ pc = "first"
    /\ \E v \in DOMAIN model, s \in States(model) :
        /\ call2' = [op |-> "predecessors_async", variable |-> v,
                     set |-> SetOfStates(system, {s})]
        /\ image2' = PredecessorsAsync(system, v, SetOfStates(system, {s}))
    /\ pc' = "second"
    /\ UNCHANGED <<domains, construction, step, model, system, update_fns, call, image, reach, first_result, bench>>

NextDual == SuccessorsOfState \/ PredecessorsOfState

SpecDual == InitImage /\ [][NextDual]_vars

\* C2: for every variable V and valid states s, s': s' is in successors_async(V, {s})
\* iff s is in predecessors_async(V, {s'}).
SelfDuality ==
    (pc = "second" /\ call.variable = call2.variable) =>
        \A s, t \in States(model) :
            (call.set = SetOfStates(system, {s}) /\ call2.set = SetOfStates(system, {t}))
            => ((t \in StatesIn(model, system, image))
                <=> (s \in StatesIn(model, system, image2)))

\* witness of C2: both sides of the equivalence true for two different states
SelfDualityWitness ==
    /\ pc = "second" /\ call.variable = call2.variable
    /\ \E s, t \in States(model) :
        /\ s # t
        /\ call.set = SetOfStates(system, {s})
        /\ call2.set = SetOfStates(system, {t})
        /\ t \in StatesIn(model, system, image)
        /\ s \in StatesIn(model, system, image2)


-----------------------------------------------------------------------------
(* The reachability driver: reach_fwd, reach_bwd and the weak-SCC loop of    *)
(* reachability_benchmark.                                                   *)

\* sorted_variables.iter().rev(): the variables in descending name order
VisitOrder(sys) == Reverse(GetSystemVariables(sys))

\* reach_fwd and reach_bwd with their image operators exchanged
ImageUnderExchanged(sys, dir, variable, set) ==
    IF dir = "fwd" THEN PredecessorsAsync(sys, variable, set)
    ELSE SuccessorsAsync(sys, variable, set)

\* the image reach_fwd / reach_bwd takes under one variable
ImageUnder(sys, dir, variable, set) ==
    IF dir = "fwd" THEN SuccessorsAsync(sys, variable, set)
    ELSE PredecessorsAsync(sys, variable, set)

\* a loop that goes on with the next variable after progress
NextVariableAfterProgress(pos) == pos + 1

\* `continue 'fwd` / `continue 'bwd`: after progress the for loop starts over
PositionAfterProgress(pos) == 1

\* entering reach_fwd / reach_bwd: result is a clone of initial
ReachEntry(dir, initial, caller) ==
    [dir |-> dir, initial |-> initial, result |-> initial, pos |-> 1, caller |-> caller]

\* top-level call of reach_fwd or reach_bwd on a chosen set
ReachCall ==
    /\ pc = "ready"
    /\ \E dir \in {"fwd", "bwd"}, S \in InputSets(system) :
           reach' = ReachEntry(dir, S, "main")
    /\ pc' = "reach"
    /\ UNCHANGED <<domains, construction, step, model, system, update_fns, call, image, call2, image2,
                   first_result, bench>>

\* one iteration of the for loop over the variables
ReachStep ==
    /\ pc = "reach"
    /\ reach.pos <= Len(VisitOrder(system))
    /\ LET var == VisitOrder(system)[reach.pos]
           found == ImageUnder(system, reach.dir, var, reach.result)
       IN  IF ~IsTrue(system.bdd_variable_set,
                      BddImp(system.bdd_variable_set, found, reach.result))
           THEN reach' = [reach EXCEPT !.result = BddOr(reach.result, found),
                                       !.pos = PositionAfterProgress(reach.pos)]
           ELSE reach' = [reach EXCEPT !.pos = reach.pos + 1]
    /\ UNCHANGED <<domains, construction, step, model, system, update_fns, pc, call, image, call2, image2,
                   first_result, bench>>

\* the for loop ran through every variable without progress: return result
ReachReturn ==
    /\ pc = "reach"
    /\ reach.pos > Len(VisitOrder(system))
    /\ pc' = CASE reach.caller = "main" -> "returned"
               [] reach.caller = "again" -> "returned_again"
               [] reach.caller = "scc_bwd" -> "scc_bwd_returned"
               [] reach.caller = "scc_fwd" -> "scc_fwd_returned"
    /\ UNCHANGED <<domains, construction, step, model, system, update_fns, call, image, call2, image2,
                   reach, first_result, bench>>

\* the caller hands the returned set to the same procedure once more
ReachAgain ==
    /\ pc = "returned"
    /\ first_result' = reach.result
    /\ reach' = ReachEntry(reach.dir, reach.result, "again")
    /\ pc' = "reach"
    /\ UNCHANGED <<domains, construction, step, model, system, update_fns, call, image, call2, image2, bench>>

\* Bdd::sat_witness: a satisfying valuation; the variables the set does not depend
\* on (here the primed ones) get the value false
SatWitnesses(sys, set) ==
    {valuation \in set : valuation \cap PrimedVariables(sys) = {}}

\* pick_state: some satisfying valuation of the set, kept on the standard
\* variables only, as a conjunctive clause
PickState(sys, valuation) ==
    MkConjunctiveClause(sys.bdd_variable_set,
        [var \in StandardVariables(sys) |-> var \in valuation])

\* reachability_benchmark up to the while loop: universe is the unit vertex set
BenchStart ==
    /\ pc = "ready"
    /\ bench' = [NoBench EXCEPT !.universe = UnitVertexSet(system)]
    /\ pc' = "bench_loop"
    /\ UNCHANGED <<domains, construction, step, model, system, update_fns, call, image, call2, image2,
                   reach, first_result>>

\* while !universe.is_false(): pick the pivot
BenchPick ==
    /\ pc = "bench_loop"
    /\ ~IsFalse(bench.universe)
    /\ \E valuation \in SatWitnesses(system, bench.universe) :
           bench' = [bench EXCEPT !.pivot = PickState(system, valuation),
                                  !.weak_scc = PickState(system, valuation)]
    /\ pc' = "scc_loop"
    /\ UNCHANGED <<domains, construction, step, model, system, update_fns, call, image, call2, image2,
                   reach, first_result>>

\* the while loop ends with the universe empty
BenchDone ==
    /\ pc = "bench_loop"
    /\ IsFalse(bench.universe)
    /\ pc' = "bench_done"
    /\ UNCHANGED <<domains, construction, step, model, system, update_fns, call, image, call2, image2,
                   reach, first_result, bench>>

\* reach_bwd(weak_scc, universe) is called
SccCallBwd ==
    /\ pc = "scc_loop"
    /\ reach' = ReachEntry("bwd", bench.weak_scc, "scc_bwd")
    /\ pc' = "reach"
    /\ UNCHANGED <<domains, construction, step, model, system, update_fns, call, image, call2, image2,
                   first_result, bench>>

\* reach_fwd(bwd_reachable, universe) is called
SccCallFwd ==
    /\ pc = "scc_bwd_returned"
    /\ reach' = ReachEntry("fwd", reach.result, "scc_fwd")
    /\ pc' = "reach"
    /\ UNCHANGED <<domains, construction, step, model, system, update_fns, call, image, call2, image2,
                   first_result, bench>>

\* universe.and_not(weak_scc)
RemoveComponent(universe, weak_scc) == BddAndNot(universe, weak_scc)

\* the test of the inner loop: expand the component, or report it and remove it
SccCompare ==
    /\ pc = "scc_fwd_returned"
    /\ LET fwd_bwd_reachable == reach.result
       IN  IF ~IsTrue(system.bdd_variable_set,
                      BddImp(system.bdd_variable_set, fwd_bwd_reachable, bench.weak_scc))
           THEN /\ bench' = [bench EXCEPT !.weak_scc = fwd_bwd_reachable]
                /\ pc' = "scc_loop"
           ELSE /\ bench' = [bench EXCEPT
                               !.universe = RemoveComponent(bench.universe, bench.weak_scc),
                               !.emitted = Append(bench.emitted,
                                                  [pivot |-> bench.pivot,
                                                   component |-> bench.weak_scc,
                                                   universe |-> bench.universe])]
                /\ pc' = "bench_loop"
    /\ UNCHANGED <<domains, construction, step, model, system, update_fns, call, image, call2, image2,
                   reach, first_result>>

NextDriver ==
    \/ ReachCall
    \/ ReachStep
    \/ ReachReturn
    \/ ReachAgain
    \/ BenchStart
    \/ BenchPick
    \/ BenchDone
    \/ SccCallBwd
    \/ SccCallFwd
    \/ SccCompare

SpecDriver == Constructed /\ [][NextDriver]_vars


-----------------------------------------------------------------------------
\* C4: when reach_fwd returns, successors(V, result) is a subset of result for
\* every system variable V; and predecessors(V, result) is a subset of result when
\* reach_bwd returns.
ReachResultIsClosed ==
    (pc \in {"returned", "returned_again", "scc_bwd_returned", "scc_fwd_returned"}) =>
        \A v \in DOMAIN model :
            /\ reach.dir = "fwd" =>
                  SuccessorsAsync(system, v, reach.result) \subseteq reach.result
            /\ reach.dir = "bwd" =>
                  PredecessorsAsync(system, v, reach.result) \subseteq reach.result

\* witness of C4: both a forward and a backward call have returned a set larger
\* than the one they started from (here the forward one, inside the SCC loop,
\* after a backward one)
ReachResultIsClosedWitness ==
    /\ pc = "scc_fwd_returned"
    /\ reach.result # reach.initial
    /\ reach.initial # bench.weak_scc
    /\ Len(VisitOrder(system)) > 1

-----------------------------------------------------------------------------
(* Paths of asynchronous steps, on explicit states *)

RECURSIVE ForwardClosure(_, _)
\* the states some path of asynchronous steps reaches from a state of Q
ForwardClosure(m, Q) ==
    LET next == Q \cup {StepOf(m, v, s) : v \in DOMAIN m, s \in Q}
    IN  IF next = Q THEN Q ELSE ForwardClosure(m, next)

RECURSIVE BackwardClosure(_, _)
\* the states from which some path of asynchronous steps reaches a state of Q
BackwardClosure(m, Q) ==
    LET next == Q \cup {s \in States(m) : \E v \in DOMAIN m : StepOf(m, v, s) \in Q}
    IN  IF next = Q THEN Q ELSE BackwardClosure(m, next)

\* C5: reach_fwd(initial, universe) returns exactly the states x to which a
\* (possibly zero-length) path of asynchronous steps leads from some state of
\* initial; in particular it contains initial, and reach_fwd of a result of
\* reach_fwd returns that result.
ReachFwdIsPathReachability ==
    /\ (pc \in {"returned", "returned_again", "scc_fwd_returned"} /\ reach.dir = "fwd") =>
         /\ reach.initial \subseteq reach.result
         /\ reach.result =
               reach.initial
               \cup SetOfStates(system,
                       ForwardClosure(model, StatesIn(model, system, reach.initial)))
    /\ (pc = "returned_again" /\ reach.dir = "fwd") => reach.result = first_result

\* witness of C5: a second forward call has returned, the first one having
\* returned more than it was given, through steps of more than one variable
ReachFwdWitness ==
    /\ pc = "returned_again" /\ reach.dir = "fwd"
    /\ Cardinality(StatesIn(model, system, first_result)) >= 4
    /\ Cardinality(DOMAIN model) > 1
    /\ reach.result = first_result


-----------------------------------------------------------------------------
Components == {bench.emitted[i].component : i \in Indices(bench.emitted)}

\* C7: every emitted component contains its pivot and is a subset of the universe
\* that remained when the pivot was picked; the emitted components are pairwise
\* disjoint; when the outer loop ends the universe is empty and the union of the
\* components is the unit vertex set.
ComponentsPartitionStates ==
    /\ \A i \in Indices(bench.emitted) :
         /\ bench.emitted[i].pivot # {}
         /\ bench.emitted[i].pivot \subseteq bench.emitted[i].component
         /\ bench.emitted[i].component \subseteq bench.emitted[i].universe
    /\ \A i, j \in Indices(bench.emitted) :
         i # j => bench.emitted[i].component \cap bench.emitted[j].component = {}
    /\ pc = "bench_done" =>
         /\ IsFalse(bench.universe)
         /\ UNION Components = UnitVertexSet(system)

\* witness of C7: the loop has ended after several components, one of them of
\* more than one state and not the first
ComponentsPartitionWitness ==
    /\ pc = "bench_done"
    /\ Len(bench.emitted) >= 2
    /\ \E i \in Indices(bench.emitted) :
         /\ i > 1
         /\ Cardinality(StatesIn(model, system, bench.emitted[i].component)) > 1

-----------------------------------------------------------------------------
StateX(k) == (NameX :> k)

StateAB(a, b) == (NameA :> a) @@ (NameB :> b)

ToggleOneComponent ==
    model = ToggleModel =>
        /\ (pc = "returned" /\ reach.dir = "fwd"
            /\ reach.initial = SetOfStates(system, {StateAB(0, 0)}))
           => reach.result = SetOfStates(system, States(model))
        /\ pc = "bench_done" =>
             /\ Len(bench.emitted) = 1
             /\ bench.emitted[1].component = SetOfStates(system, States(model))
             /\ Cardinality(States(model)) = 4

\* witness of C9: reach_fwd from {(0,0)} has returned on the toggle
ToggleWitness ==
    /\ model = ToggleModel
    /\ pc = "returned" /\ reach.dir = "fwd"
    /\ reach.initial = SetOfStates(system, {StateAB(0, 0)})
    /\ Cardinality(StatesIn(model, system, reach.result)) = 4


-----------------------------------------------------------------------------
(* ComputationStep: the same computation run in lockstep on the systems of   *)
(* the four encodings.  An Option is <<>> (None) or <<x>> (Some(x)).         *)

Kinds == {"unary", "binary", "gray", "petri_net"}

None == <<>>

Some(x) == <<x>>

IsSome(o) == o # None

Unwrap(o) == o[1]

RECURSIVE FwdStepFrom(_, _, _)
\* the for loop of fwd_step from position pos of the reversed variable list
FwdStepFrom(sys, set, pos) ==
    IF pos > Len(VisitOrder(sys)) THEN None
    ELSE LET successors == SuccessorsAsync(sys, VisitOrder(sys)[pos], set)
         IN  IF ~IsTrue(sys.bdd_variable_set,
                        BddImp(sys.bdd_variable_set, successors, set))
             THEN Some(BddOr(successors, set))
             ELSE FwdStepFrom(sys, set, pos + 1)

\* fwd_step: the first variable, in descending order, that gives new successors
FwdStep(sys, set) == FwdStepFrom(sys, set, 1)

RECURSIVE BwdStepFrom(_, _, _)
\* the for loop of bwd_step from position pos of the reversed variable list
BwdStepFrom(sys, set, pos) ==
    IF pos > Len(VisitOrder(sys)) THEN None
    ELSE LET predecessors == PredecessorsAsync(sys, VisitOrder(sys)[pos], set)
         IN  IF ~IsTrue(sys.bdd_variable_set,
                        BddImp(sys.bdd_variable_set, predecessors, set))
             THEN Some(BddOr(predecessors, set))
             ELSE BwdStepFrom(sys, set, pos + 1)

\* bwd_step: the first variable, in descending order, that gives new predecessors
BwdStep(sys, set) == BwdStepFrom(sys, set, 1)

\* a count_states_exact that shifts by the number of system variables
CountStatesExactByVariables(sys, set) ==
    BddCardinality(set) \div Pow2(Len(sys.variables_transition_relation_and_domain))

\* count_states_exact: exact_cardinality() >> (num_vars / 2)
CountStatesExact(sys, set) ==
    BddCardinality(set) \div Pow2(sys.bdd_variable_set.num_vars \div 2)

\* pick_state_map: the values a satisfying valuation of the set gives the variables
PickStateMap(sys, valuation) ==
    LET infos == sys.variables_transition_relation_and_domain
        total == [v \in BddVariables(sys.bdd_variable_set) |-> v \in valuation]
    IN  [name \in Range(GetSystemVariables(sys)) |->
            DecodeBits(GetTransitionRelationAndDomain(sys, name).domain, total)]

\* encode_state_map: the conjunctive clause of the encodings of the values
EncodeStateMap(sys, state) ==
    LET Step(acc, it) == EncodeBits(it.domain, acc, state[it.name])
    IN  MkConjunctiveClause(sys.bdd_variable_set,
            FoldSeq(Step, EmptyValuation, sys.variables_transition_relation_and_domain))

\* ComputationStep::is_done
IsDone == IsFalse(step.universe["unary"])

\* ComputationStep::can_initialize
CanInitialize == ~IsSome(step.result["unary"])

\* ComputationStep::new: the four systems of the model, no result, the unit
\* vertex sets as universes
NewComputationStep ==
    /\ pc = "ready"
    /\ LET systems == [k \in Kinds |-> FromUpdateFns(k, model)]
       IN  step' = [steps |-> 0,
                    universe |-> [k \in Kinds |-> UnitVertexSet(systems[k])],
                    result |-> [k \in Kinds |-> None],
                    system |-> systems]
    /\ pc' = "step_ready"
    /\ UNCHANGED <<domains, construction, model, system, update_fns, call, image, call2, image2,
                   reach, first_result, bench>>

\* ComputationStep::initialize
Initialize ==
    /\ pc = "step_ready"
    /\ ~IsDone
    /\ CanInitialize
    /\ \E valuation \in SatWitnesses(step.system["unary"], step.universe["unary"]) :
         LET state == PickStateMap(step.system["unary"], valuation)
         IN  step' = [step EXCEPT
                        !.steps = 0,
                        !.result = [k \in Kinds |->
                                       Some(EncodeStateMap(step.system[k], state))]]
    /\ pc' = "step_check"
    /\ UNCHANGED <<domains, construction, model, system, update_fns, call, image, call2, image2,
                   reach, first_result, bench>>

\* the tail of perform_fwd_step / perform_bwd_step: a universe loses the new
\* result when there is one
UniverseAfter(universe, result) ==
    [k \in Kinds |->
        IF IsSome(result[k]) THEN BddAndNot(universe[k], Unwrap(result[k]))
        ELSE universe[k]]

\* ComputationStep::perform_fwd_step; unwrap() panics on a result that is None
PerformFwdStep ==
    /\ pc = "step_ready"
    /\ ~CanInitialize
    /\ IF \E k \in Kinds : ~IsSome(step.result[k])
       THEN /\ pc' = "panicked"
            /\ step' = [step EXCEPT !.steps = step.steps + 1]
       ELSE /\ LET result == [k \in Kinds |->
                                 FwdStep(step.system[k], Unwrap(step.result[k]))]
               IN  step' = [step EXCEPT
                              !.steps = step.steps + 1,
                              !.result = result,
                              !.universe = UniverseAfter(step.universe, result)]
            /\ pc' = "step_check"
    /\ UNCHANGED <<domains, construction, model, system, update_fns, call, image, call2, image2,
                   reach, first_result, bench>>

\* ComputationStep::perform_bwd_step
PerformBwdStep ==
    /\ pc = "step_ready"
    /\ ~CanInitialize
    /\ IF \E k \in Kinds : ~IsSome(step.result[k])
       THEN /\ pc' = "panicked"
            /\ step' = [step EXCEPT !.steps = step.steps + 1]
       ELSE /\ LET result == [k \in Kinds |->
                                 BwdStep(step.system[k], Unwrap(step.result[k]))]
               IN  step' = [step EXCEPT
                              !.steps = step.steps + 1,
                              !.result = result,
                              !.universe = UniverseAfter(step.universe, result)]
            /\ pc' = "step_check"
    /\ UNCHANGED <<domains, construction, model, system, update_fns, call, image, call2, image2,
                   reach, first_result, bench>>

\* the counts check_consistency compares: Option of the exact count, per encoding
Counts ==
    [k \in Kinds |->
        IF IsSome(step.result[k])
        THEN Some(CountStatesExact(step.system[k], Unwrap(step.result[k])))
        ELSE None]

\* ComputationStep::check_consistency: panics when two counts differ
CheckConsistency ==
    /\ pc = "step_check"
    /\ pc' = IF \/ Counts["unary"] # Counts["binary"]
                \/ Counts["binary"] # Counts["gray"]
                \/ Counts["gray"] # Counts["petri_net"]
             THEN "panicked" ELSE "step_ready"
    /\ UNCHANGED <<domains, construction, model, system, update_fns, call, image, call2, image2,
                   reach, first_result, bench, step, domains, construction>>

NextSteps ==
    \/ NewComputationStep
    \/ Initialize
    \/ PerformFwdStep
    \/ PerformBwdStep
    \/ CheckConsistency

SpecSteps == Constructed /\ [][NextSteps]_vars

\* C6: when the same initial state is encoded in the unary, binary, Gray-code and
\* one-hot systems and fwd_step or bwd_step is applied to all four in lockstep,
\* after every step the four results are all None or all Some with the same exact
\* state count, and check_consistency never panics.
EncodingsAgree ==
    /\ pc # "panicked"
    /\ pc \in {"step_check", "step_ready"} =>
         \A k, l \in Kinds :
            /\ IsSome(step.result[k]) = IsSome(step.result[l])
            /\ Counts[k] = Counts[l]

\* witness of C6: check_consistency has passed after the second step of a run on a
\* model of two variables, one of them three-valued, the results counting three
\* states or more
EncodingsAgreeWitness ==
    /\ pc = "step_ready"
    /\ step.steps >= 2
    /\ Cardinality(DOMAIN model) = 2
    /\ \E n \in DOMAIN model : MaxValues(model)[n] = 2
    /\ IsSome(step.result["gray"])
    /\ Counts["petri_net"] = Some(Cardinality(StatesIn(model, system, Unwrap(step.result["unary"]))))
    /\ Unwrap(Counts["binary"]) >= 3


-----------------------------------------------------------------------------
(* Collections of values: the default methods of SymbolicDomain and the    *)
(* GenericStateSpaceDomain.  A state-space domain is                       *)
(* [kind |-> "state_space", variable_domains]; its values are the vectors  *)
(* of the values of its variable domains.                                  *)

\* the largest maximum of a domain under test
MaxDomainValue == 2

\* the longest collection handed to encode_collection
MaxCollectionLen == 2

\* BddVariableSet::mk_dnf: the disjunction of the conjunctive clauses
MkDnf(vs, clauses) ==
    UNION {MkConjunctiveClause(vs, clauses[i]) : i \in Indices(clauses)}

\* Bdd::select: the valuations of f that give the fixed variables their values
BddSelect(f, fixed_selection) ==
    {a \in f : \A v \in DOMAIN fixed_selection : (v \in a) = fixed_selection[v]}

\* the order in which Bdd::sat_valuations yields valuations: the first variable
\* two valuations differ on is false in the earlier one
ValuationLess(a, b) == \E v \in b \ a : \A w \in a \ b : v < w

RECURSIVE SatValuations(_)
\* Bdd::sat_valuations, as the sequence the iterator yields
SatValuations(f) ==
    IF f = {} THEN <<>>
    ELSE LET first == CHOOSE a \in f : \A b \in f \ {a} : ValuationLess(a, b)
         IN  <<first>> \o SatValuations(f \ {first})

GenericStateSpaceDomainNew(variable_domains) ==
    [kind |-> "state_space", variable_domains |-> variable_domains]

GetRawDomain(state_space, variable_id) == state_space.variable_domains[variable_id + 1]

\* GenericStateSpaceDomain::encode_bits: domain i encodes value[i]
StateSpaceEncodeBits(state_space, bdd_valuation, value) ==
    LET Step(acc, i) == EncodeBits(state_space.variable_domains[i], acc, value[i])
    IN  FoldSeq(Step, bdd_valuation, [i \in Indices(state_space.variable_domains) |-> i])

\* GenericStateSpaceDomain::decode_bits: the vector of the decoded components
StateSpaceDecodeBits(state_space, bdd_valuation) ==
    [i \in Indices(state_space.variable_domains) |->
        DecodeBits(state_space.variable_domains[i], bdd_valuation)]

StateSpaceSymbolicVariables(state_space) ==
    LET Step(result, domain) == result \o SymbolicVariables(domain)
    IN  FoldSeq(Step, <<>>, state_space.variable_domains)

StateSpaceSymbolicSize(state_space) ==
    LET Step(result, domain) == result + SymbolicSize(domain)
    IN  FoldSeq(Step, 0, state_space.variable_domains)

StateSpaceEmptyCollection(vs, state_space) ==
    LET Step(result, domain) == BddOr(result, EmptyCollection(vs, domain))
    IN  FoldSeq(Step, MkFalse(vs), state_space.variable_domains)

\* a state-space unit collection that keeps only the first domain's constraint
StateSpaceUnitCollectionOfFirst(vs, state_space) ==
    IF state_space.variable_domains = <<>> THEN MkTrue(vs)
    ELSE UnitCollection(vs, state_space.variable_domains[1])

StateSpaceUnitCollection(vs, state_space) ==
    LET Step(result, domain) == BddAnd(result, UnitCollection(vs, domain))
    IN  FoldSeq(Step, MkTrue(vs), state_space.variable_domains)

(* The methods of the implementing type, for the default methods below *)

ImplEncodeBits(domain, bdd_valuation, value) ==
    IF domain.kind = "state_space" THEN StateSpaceEncodeBits(domain, bdd_valuation, value)
    ELSE EncodeBits(domain, bdd_valuation, value)

ImplDecodeBits(domain, bdd_valuation) ==
    IF domain.kind = "state_space" THEN StateSpaceDecodeBits(domain, bdd_valuation)
    ELSE DecodeBits(domain, bdd_valuation)

ImplSymbolicVariables(domain) ==
    IF domain.kind = "state_space" THEN StateSpaceSymbolicVariables(domain)
    ELSE SymbolicVariables(domain)

ImplUnitCollection(vs, domain) ==
    IF domain.kind = "state_space" THEN StateSpaceUnitCollection(vs, domain)
    ELSE UnitCollection(vs, domain)

ImplEmptyCollection(vs, domain) ==
    IF domain.kind = "state_space" THEN StateSpaceEmptyCollection(vs, domain)
    ELSE EmptyCollection(vs, domain)

\* SymbolicDomain::encode_collection: one clause per listed value
EncodeCollection(vs, domain, collection) ==
    LET clauses == [i \in Indices(collection) |->
                       ImplEncodeBits(domain, EmptyValuation, collection[i])]
    IN  MkDnf(vs, clauses)

\* a decode_collection that yields the values last to first
DecodeCollectionBackwards(vs, domain, collection) ==
    LET encoding_variables == ImplSymbolicVariables(domain)
        ignored_variables == BddVariables(vs) \ Range(encoding_variables)
        selected == BddSelect(BddExists(collection, ignored_variables),
                              [v \in ignored_variables |-> FALSE])
        valuations == Reverse(SatValuations(selected))
    IN  [i \in Indices(valuations) |->
            ImplDecodeBits(domain, [bit \in Range(encoding_variables) |->
                                       bit \in valuations[i]])]

\* SymbolicDomain::decode_collection: the other variables are quantified away and
\* fixed to false, then every satisfying valuation is decoded, in iteration order
DecodeCollection(vs, domain, collection) ==
    LET encoding_variables == ImplSymbolicVariables(domain)
        ignored_variables == BddVariables(vs) \ Range(encoding_variables)
        selected == BddSelect(BddExists(collection, ignored_variables),
                              [v \in ignored_variables |-> FALSE])
        valuations == SatValuations(selected)
    IN  [i \in Indices(valuations) |->
            ImplDecodeBits(domain, [bit \in Range(encoding_variables) |->
                                       bit \in valuations[i]])]

-----------------------------------------------------------------------------
(* Calls on the domains of a two-variable state space: x and y are made in *)
(* one builder, the state space is built over both; a run makes one call   *)
(* and decodes what it returned                                            *)

\* the sequences over S of length at most n
SeqsUpTo(S, n) == UNION {[1..k -> S] : k \in 0..n}

\* the elements of a set of numbers, ascending
RECURSIVE Ascending(_)
Ascending(S) ==
    IF S = {} THEN <<>>
    ELSE LET least == CHOOSE x \in S : \A y \in S : x <= y
         IN  <<least>> \o Ascending(S \ {least})

NewDomains(max_x, max_y) ==
    LET x == UnaryIntegerDomainNew(<<>>, NameX, max_x)
        y == UnaryIntegerDomainNew(x.builder, <<"Y">>, max_y)
    IN  [var_set |-> BuildVariableSet(y.builder),
         state_space |-> GenericStateSpaceDomainNew(<<x.domain, y.domain>>),
         max_values |-> <<max_x, max_y>>,
         op |-> "none", target |-> 0, input |-> <<>>, bdd |-> {},
         decoded |-> None]

\* the domain a call is made on: 0 is the state space, i its i-th variable domain
TargetDomain(d, target) ==
    IF target = 0 THEN d.state_space ELSE GetRawDomain(d.state_space, target - 1)

\* the vectors of in-domain values of the state space
StateVectors(d) ==
    {<<x, y>> : x \in 0..d.max_values[1], y \in 0..d.max_values[2]}

InitDomains ==
    /\ \E max_x \in 0..MaxDomainValue, max_y \in 0..MaxDomainValue :
          domains = NewDomains(max_x, max_y)
    /\ model = <<>>
    /\ system = [panicked |-> FALSE]
    /\ update_fns = <<>>
    /\ pc = "ready"
    /\ call = NoCall
    /\ image = {}
    /\ call2 = NoCall
    /\ image2 = {}
    /\ reach = NoReach
    /\ first_result = {}
    /\ bench = NoBench
    /\ step = NoStep
    /\ construction = NoConstruction

\* the record of a call and of the BDD it returned
AfterCall(d, op, target, input, bdd) ==
    [d EXCEPT !.op = op, !.target = target, !.input = input, !.bdd = bdd,
              !.decoded = None]

\* encode_one on a variable domain, with values past the maximum
CallEncodeOne ==
    /\ domains.op = "none"
    /\ \E target \in 1..2, value \in 0..(MaxDomainValue + 1) :
           domains' = AfterCall(domains, "encode_one", target, value,
                    EncodeOne(domains.var_set, TargetDomain(domains, target), value))
    /\ UNCHANGED <<construction, step, model, system, update_fns, pc, call, image,
                   call2, image2, reach, first_result, bench>>

\* encode_collection on a variable domain
CallEncodeCollection ==
    /\ domains.op = "none"
    /\ \E target \in 1..2, collection \in SeqsUpTo(0..(MaxDomainValue + 1), MaxCollectionLen) :
           domains' = AfterCall(domains, "encode_collection", target, collection,
                    EncodeCollection(domains.var_set, TargetDomain(domains, target),
                                     collection))
    /\ UNCHANGED <<construction, step, model, system, update_fns, pc, call, image,
                   call2, image2, reach, first_result, bench>>

\* encode_collection on the state space
CallEncodeStates ==
    /\ domains.op = "none"
    /\ \E collection \in SeqsUpTo(StateVectors(domains), MaxCollectionLen) :
           domains' = AfterCall(domains, "encode_collection", 0, collection,
                    EncodeCollection(domains.var_set, domains.state_space, collection))
    /\ UNCHANGED <<construction, step, model, system, update_fns, pc, call, image,
                   call2, image2, reach, first_result, bench>>

CallUnitCollection ==
    /\ domains.op = "none"
    /\ \E target \in 0..2 :
           domains' = AfterCall(domains, "unit_collection", target, <<>>,
                    ImplUnitCollection(domains.var_set, TargetDomain(domains, target)))
    /\ UNCHANGED <<construction, step, model, system, update_fns, pc, call, image,
                   call2, image2, reach, first_result, bench>>

CallEmptyCollection ==
    /\ domains.op = "none"
    /\ \E target \in 0..2 :
           domains' = AfterCall(domains, "empty_collection", target, <<>>,
                    ImplEmptyCollection(domains.var_set, TargetDomain(domains, target)))
    /\ UNCHANGED <<construction, step, model, system, update_fns, pc, call, image,
                   call2, image2, reach, first_result, bench>>

\* one variable restricted through its raw domain, then sanitised by the unit
\* collection of the state space
CallRestrict ==
    /\ domains.op = "none"
    /\ \E target \in 1..2 :
           \E R \in SUBSET (0..domains.max_values[target]) :
               domains' = AfterCall(domains, "restrict", target, Ascending(R),
                        BddAnd(EncodeCollection(domains.var_set,
                                                TargetDomain(domains, target), Ascending(R)),
                               StateSpaceUnitCollection(domains.var_set, domains.state_space)))
    /\ UNCHANGED <<construction, step, model, system, update_fns, pc, call, image,
                   call2, image2, reach, first_result, bench>>

\* both variables restricted, each sanitised, then intersected
CallRestrictBoth ==
    /\ domains.op = "none"
    /\ \E R_x \in SUBSET (0..domains.max_values[1]),
          R_y \in SUBSET (0..domains.max_values[2]) :
           LET unit_set == StateSpaceUnitCollection(domains.var_set, domains.state_space)
               encoded_restrict_x ==
                   BddAnd(EncodeCollection(domains.var_set, TargetDomain(domains, 1),
                                           Ascending(R_x)), unit_set)
               encoded_restrict_y ==
                   BddAnd(EncodeCollection(domains.var_set, TargetDomain(domains, 2),
                                           Ascending(R_y)), unit_set)
           IN  domains' = AfterCall(domains, "restrict_both", 0, <<Ascending(R_x), Ascending(R_y)>>,
                        BddAnd(encoded_restrict_x, encoded_restrict_y))
    /\ UNCHANGED <<construction, step, model, system, update_fns, pc, call, image,
                   call2, image2, reach, first_result, bench>>

\* decode_collection of the BDD the last call returned, by the domain it was made
\* on; a restricted set is decoded by the state space
CallDecodeCollection ==
    /\ domains.op # "none"
    /\ domains.decoded = None
    /\ domains' =
          [domains EXCEPT !.decoded =
              Some(DecodeCollection(
                       domains.var_set,
                       IF domains.op \in {"restrict", "restrict_both"}
                       THEN domains.state_space
                       ELSE TargetDomain(domains, domains.target),
                       domains.bdd))]
    /\ UNCHANGED <<construction, step, model, system, update_fns, pc, call, image,
                   call2, image2, reach, first_result, bench>>

NextDomains ==
    \/ CallEncodeOne
    \/ CallEncodeCollection
    \/ CallEncodeStates
    \/ CallUnitCollection
    \/ CallEmptyCollection
    \/ CallRestrict
    \/ CallRestrictBoth
    \/ CallDecodeCollection

SpecDomains == InitDomains /\ [][NextDomains]_vars

-----------------------------------------------------------------------------
\* C11: on a unary domain with maximum m, encode_one(v) AND unit_collection is
\* encode_one(v) for every v in 0..m; for v above m the conjunction is the empty
\* BDD, and encode_one(v) is never the encoding of an in-domain value.
EncodeOneRespectsDomain ==
    domains.op = "encode_one" =>
        LET domain == TargetDomain(domains, domains.target)
            m == domains.max_values[domains.target]
            unit == UnitCollection(domains.var_set, domain)
        IN  IF domains.input <= m
            THEN BddAnd(domains.bdd, unit) = domains.bdd
            ELSE /\ IsFalse(BddAnd(domains.bdd, unit))
                 /\ \A w \in 0..m : domains.bdd # EncodeOne(domains.var_set, domain, w)

\* C12: on a unary domain with maximum m, the unit collection is the disjunction
\* of encode_one(v) over v in 0..m and decodes to m + 1 distinct values, the domain
\* has exactly m symbolic variables, and the empty collection decodes to no value.
UnitCollectionIsTheDomain ==
    domains.op \in {"unit_collection", "empty_collection"} /\ domains.target # 0 =>
        LET domain == TargetDomain(domains, domains.target)
            m == domains.max_values[domains.target]
        IN  /\ SymbolicSize(domain) = m
            /\ Len(SymbolicVariables(domain)) = m
            /\ domains.op = "unit_collection" =>
                  /\ domains.bdd = EncodeValues(domains.var_set, domain, 0..m)
                  /\ IsSome(domains.decoded) =>
                        /\ Len(Unwrap(domains.decoded)) = m + 1
                        /\ Range(Unwrap(domains.decoded)) = 0..m
            /\ domains.op = "empty_collection" /\ IsSome(domains.decoded) =>
                  Unwrap(domains.decoded) = <<>>

UnitCollectionWitness ==
    /\ domains.op = "unit_collection"
    /\ domains.target = 1
    /\ domains.max_values[1] = MaxDomainValue
    /\ IsSome(domains.decoded)
    /\ Len(Unwrap(domains.decoded)) = MaxDomainValue + 1

\* the order of the values of a domain: numbers ascending, vectors lexicographic
ValueLess(target, a, b) ==
    IF target = 0
    THEN \E i \in Indices(a) : a[i] < b[i] /\ \A j \in 1..(i - 1) : a[j] = b[j]
    ELSE a < b

\* the values a domain under test holds
ValuesOf(d, target) ==
    IF target = 0 THEN StateVectors(d) ELSE 0..d.max_values[target]

StateSpaceIsProduct ==
    domains # NoDomains =>
        LET max_x == domains.max_values[1]
            max_y == domains.max_values[2]
            states == Unwrap(domains.decoded)
            Distinct == Cardinality(Range(states)) = Len(states)
        IN  /\ StateSpaceSymbolicSize(domains.state_space)
                  = SymbolicSize(GetRawDomain(domains.state_space, 0))
                    + SymbolicSize(GetRawDomain(domains.state_space, 1))
            /\ Range(StateSpaceSymbolicVariables(domains.state_space))
                  = BddVariables(domains.var_set)
            /\ domains.op = "unit_collection" /\ domains.target = 0
               /\ IsSome(domains.decoded) =>
                  /\ Len(states) = (max_x + 1) * (max_y + 1)
                  /\ Range(states) = StateVectors(domains)
            /\ domains.op = "restrict" /\ IsSome(domains.decoded) =>
                  /\ Len(states) = Len(domains.input)
                        * (IF domains.target = 1 THEN max_y + 1 ELSE max_x + 1)
                  /\ Range(states) =
                        {s \in StateVectors(domains) :
                            s[domains.target] \in Range(domains.input)}
                  /\ Distinct
            /\ domains.op = "restrict_both" /\ IsSome(domains.decoded) =>
                  /\ Len(states) = Len(domains.input[1]) * Len(domains.input[2])
                  /\ Range(states) =
                        {s \in StateVectors(domains) :
                            /\ s[1] \in Range(domains.input[1])
                            /\ s[2] \in Range(domains.input[2])}
                  /\ Distinct

StateSpaceIsProductWitness ==
    /\ domains.op = "restrict"
    /\ domains.target = 1
    /\ domains.max_values = <<MaxDomainValue, MaxDomainValue>>
    /\ Len(domains.input) = 2
    /\ IsSome(domains.decoded)
    /\ Len(Unwrap(domains.decoded)) = 2 * (MaxDomainValue + 1)

-----------------------------------------------------------------------------
(* Counting and picking on a constructed system, for every encoding *)

RECURSIVE Halve(_, _)
\* the f64 quotient n / 2^k, exact for the cardinalities at hand, in lowest terms
Halve(n, k) ==
    IF k = 0 \/ n % 2 = 1 THEN [numerator |-> n, halvings |-> k]
    ELSE Halve(n \div 2, k - 1)

\* SmartSystemUpdateFn::count_states: the cardinality over 2^(number of entries of
\* variables_transition_relation_and_domain)
SmartCountStates(sys, set) ==
    LET symbolic_var_count == Len(sys.variables_transition_relation_and_domain)
    IN  Halve(BddCardinality(set), symbolic_var_count)

\* the assert_eq!(symbolic_var_count % 2, 0) of the two counting functions
CountStatesPanics(sys) == sys.bdd_variable_set.num_vars % 2 # 0

\* reachability::count_states: the cardinality over 2^(num_vars / 2)
CountStates(sys, set) ==
    LET symbolic_var_count == sys.bdd_variable_set.num_vars
        primed_vars == symbolic_var_count \div 2
    IN  Halve(BddCardinality(set), primed_vars)

\* a pick_state_bdd that keeps the whole satisfying valuation
PickWholeValuation(sys, valuation) ==
    MkConjunctiveClause(sys.bdd_variable_set,
        [var \in BddVariables(sys.bdd_variable_set) |-> var \in valuation])

\* SmartSystemUpdateFn::pick_state_bdd: the valuation kept on the raw variables of
\* the unprimed domains
PickStateBdd(sys, valuation) ==
    LET Collect(acc, it) == acc \o RawBddVariables(it.domain)
        standard_variables ==
            FoldSeq(Collect, <<>>, sys.variables_transition_relation_and_domain)
        Set(state_data, var) == SetValue(state_data, var, var \in valuation)
    IN  MkConjunctiveClause(sys.bdd_variable_set,
                            FoldSeq(Set, EmptyValuation, standard_variables))

\* the message of the expect() of pick_state and pick_state_bdd
EmptySetMessage == <<"Cannot pick state from an empty set.">>

Panic(message) == [op |-> "panic", variable |-> <<>>, set |-> {}, message |-> message]

\* the sets handed to the counting and picking functions: the sets of at most
\* MaxSetSize valid states, every bit pattern, and the transition relations
QuerySets(m, sys) ==
    {SetOfStates(sys, Q) : Q \in SubsetsUpTo(States(m), MaxSetSize)}
    \cup {MkTrue(sys.bdd_variable_set)}
    \cup {sys.variables_transition_relation_and_domain[i].transition_relation :
             i \in Indices(sys.variables_transition_relation_and_domain)}

\* the satisfying valuations sat_witness may return, told apart by what they give
\* the unprimed variables
Witnesses(sys, set) == {valuation \ PrimedVariables(sys) : valuation \in set}

InitQueries ==
    /\ model \in Models
    /\ \E kind \in Kinds :
          /\ system = FromUpdateFns(kind, model)
          /\ update_fns = Compiled(kind, model).update_fns
    /\ pc = "ready"
    /\ call = NoCall
    /\ image = {}
    /\ call2 = NoCall
    /\ image2 = {}
    /\ reach = NoReach
    /\ first_result = {}
    /\ bench = NoBench
    /\ step = NoStep
    /\ domains = NoDomains
    /\ construction = NoConstruction

\* system.count_states(set)
CallSmartCountStates ==
    /\ pc = "ready"
    /\ \E S \in QuerySets(model, system) :
        /\ call' = [op |-> "count_states", variable |-> <<>>, set |-> S]
        /\ image' = SmartCountStates(system, S)
    /\ pc' = "returned"
    /\ UNCHANGED <<domains, construction, step, model, system, update_fns, call2, image2,
                   reach, first_result, bench>>

\* reachability::count_states(system, set) on the set just counted
CallCountStates ==
    /\ pc = "returned"
    /\ call.op = "count_states"
    /\ IF CountStatesPanics(system)
       THEN /\ pc' = "panicked"
            /\ UNCHANGED <<call2, image2>>
       ELSE /\ call2' = [op |-> "reachability::count_states", variable |-> <<>>,
                         set |-> call.set]
            /\ image2' = CountStates(system, call.set)
            /\ pc' = "returned_again"
    /\ UNCHANGED <<domains, construction, step, model, system, update_fns, call, image,
                   reach, first_result, bench>>

\* reachability::count_states_exact(system, set)
CallCountStatesExact ==
    /\ pc = "ready"
    /\ \E S \in QuerySets(model, system) :
        /\ call' = [op |-> "count_states_exact", variable |-> <<>>, set |-> S]
        /\ IF CountStatesPanics(system)
           THEN pc' = "panicked" /\ UNCHANGED image
           ELSE pc' = "returned" /\ image' = CountStatesExact(system, S)
    /\ UNCHANGED <<domains, construction, step, model, system, update_fns, call2, image2,
                   reach, first_result, bench>>

\* reachability::pick_state(system, set)
CallPickState ==
    /\ pc = "ready"
    /\ \E S \in QuerySets(model, system) :
        /\ call' = [op |-> "pick_state", variable |-> <<>>, set |-> S]
        /\ IF IsFalse(S)
           THEN /\ pc' = "panicked"
                /\ call2' = Panic(EmptySetMessage)
                /\ UNCHANGED image
           ELSE /\ pc' = "returned"
                /\ \E valuation \in Witnesses(system, S) :
                       image' = PickState(system, valuation)
                /\ UNCHANGED call2
    /\ UNCHANGED <<domains, construction, step, model, system, update_fns, image2,
                   reach, first_result, bench>>

\* system.pick_state_bdd(set)
CallPickStateBdd ==
    /\ pc = "ready"
    /\ \E S \in QuerySets(model, system) :
        /\ call' = [op |-> "pick_state_bdd", variable |-> <<>>, set |-> S]
        /\ IF IsFalse(S)
           THEN /\ pc' = "panicked"
                /\ call2' = Panic(EmptySetMessage)
                /\ UNCHANGED image
           ELSE /\ pc' = "returned"
                /\ \E valuation \in Witnesses(system, S) :
                       image' = PickStateBdd(system, valuation)
                /\ UNCHANGED call2
    /\ UNCHANGED <<domains, construction, step, model, system, update_fns, image2,
                   reach, first_result, bench>>

NextQueries ==
    \/ CallSmartCountStates
    \/ CallCountStates
    \/ CallCountStatesExact
    \/ CallPickState
    \/ CallPickStateBdd

SpecQueries == InitQueries /\ [][NextQueries]_vars

\* the set does not depend on the primed variables
IndependentOfPrimed(sys, set) == BddExists(set, PrimedVariables(sys)) = set

\* C15: the approximate state count of S is cardinality(S) over 2 to the number of
\* primed BDD variables, for every model and encoding, and
\* SmartSystemUpdateFn::count_states agrees with reachability::count_states on S.
CountStatesAgree ==
    call.op = "count_states" =>
        /\ image = Halve(BddCardinality(call.set), Cardinality(PrimedVariables(system)))
        /\ pc = "returned_again" => image2 = image

\* C16: count_states_exact(S) is the number of distinct unprimed states of S for
\* every set S of valid states that does not depend on the primed variables, and
\* the parity assertion never fails: every variable has a primed and an unprimed
\* domain of the same width.
CountStatesExactCountsStates ==
    call.op = "count_states_exact" =>
        /\ pc # "panicked"
        /\ ~CountStatesPanics(system)
        /\ \A i \in Indices(system.variables_transition_relation_and_domain) :
              LET it == system.variables_transition_relation_and_domain[i]
              IN  SymbolicSize(it.domain) = SymbolicSize(it.primed_domain)
        /\ (/\ IndependentOfPrimed(system, call.set)
            /\ call.set \subseteq UnitVertexSet(system))
           => image = Cardinality(StatesIn(model, system, call.set))

CountStatesExactWitness ==
    /\ call.op = "count_states_exact"
    /\ pc = "returned"
    /\ Cardinality(StandardVariables(system))
          > Len(system.variables_transition_relation_and_domain)
    /\ IndependentOfPrimed(system, call.set)
    /\ call.set \subseteq UnitVertexSet(system)
    /\ image = 2

\* C17: pick_state on a non-empty S returns a BDD that fixes every unprimed
\* variable and no primed one, so it holds exactly one unprimed state, which is in
\* S whenever S does not depend on the primed variables; on the empty S it panics
\* with "Cannot pick state from an empty set." and returns nothing.
PickStateIsOneState ==
    call.op \in {"pick_state", "pick_state_bdd"} =>
        IF IsFalse(call.set)
        THEN /\ pc = "panicked"
             /\ call2 = Panic(EmptySetMessage)
             /\ image = {}
        ELSE /\ pc = "returned"
             /\ \E pattern \in SUBSET StandardVariables(system) :
                    image = SetOfPatterns(system, {pattern})
             /\ IndependentOfPrimed(system, call.set) => image \subseteq call.set

PickStateWitness ==
    /\ call.op = "pick_state_bdd"
    /\ pc = "returned"
    /\ Cardinality(call.set) > Cardinality(image)
    /\ IndependentOfPrimed(system, call.set)
    /\ PrimedVariables(system) # {}
    /\ image \subseteq call.set

-----------------------------------------------------------------------------
(* SmartSystemUpdateFn::from_update_fns, statement by statement, on well-   *)
(* formed and malformed input maps.  The record `construction` holds the    *)
(* position in the constructor and the locals made so far; a panic stops    *)
(* it where it is and no system is returned.                                *)

NamePrimedA == <<"A", "'">>

\* A and a second variable named like the primed A
TickModel ==
    (NameA :> UpdateFn(<< <<1, T(NameA, "Eq", 0)>> >>, 0))
    @@ (NamePrimedA :> UpdateFn(<<>>, 1))

\* B is fine, the other name ends with a tick, and its guard names no variable
TickAndUnknownModel ==
    (NameB :> UpdateFn(<<>>, 1))
    @@ (NamePrimedA :> UpdateFn(<< <<1, T(NameX, "Eq", 1)>> >>, 0))

\* the only guard compares B, which has no update function
UnknownGuardModel == (NameA :> UpdateFn(<< <<1, T(NameB, "Eq", 1)>> >>, 0))

\* A compiles, B's first guard compiles, B's second guard names X
UnknownGuardLaterModel ==
    (NameA :> UpdateFn(<<>>, 1))
    @@ (NameB :> UpdateFn(<< <<1, T(NameA, "Eq", 1)>>,
                           <<2, ENot(T(NameX, "Geq", 1))>> >>, 0))

\* the largest literal about B sits under Implies, And and Not; the largest
\* about A under Xor and Or
DeepGuardModel ==
    (NameA :> UpdateFn(<< <<1, EImplies(EAnd(<<T(NameA, "Eq", 0),
                                               ENot(T(NameB, "Geq", 3))>>),
                                        EXor(T(NameB, "Eq", 1),
                                             EOr(<<T(NameA, "Lt", 2)>>)))>> >>, 0))
    @@ (NameB :> UpdateFn(<< <<1, T(NameA, "Eq", 1)>> >>, 0))

MalformedModels ==
    {TickModel, TickAndUnknownModel, UnknownGuardModel, UnknownGuardLaterModel}

ConstructionInputs == Models \cup {DeepGuardModel} \cup MalformedModels

NoSystem == [panicked |-> TRUE]

\* the message of the panic on a reserved name
ReservedNameMessage ==
    <<"variable name cannot contain the prime symbol \"'\" (tick) - it is reserved for inner usage">>

\* the message of bdd_from_proposition on a variable without a domain
MissingDomainMessage == <<"Symbolic domain for variable should be avilable, but is not">>

EnterFromUpdateFns(vars_and_their_update_fns) ==
    [stage |-> "check_names",
     input |-> vars_and_their_update_fns,
     named_update_fns_sorted |-> None,
     max_values |-> None,
     builder |-> <<>>,
     named_symbolic_domains |-> <<>>,
     bdd_variable_set |-> None,
     unit_set |-> None,
     guards_compiled |-> 0,
     update_fns |-> <<>>,
     relations |-> <<>>,
     message |-> None]

InitConstruction ==
    /\ \E m \in ConstructionInputs :
          /\ model = m
          /\ construction = EnterFromUpdateFns(m)
    /\ system = NoSystem
    /\ update_fns = <<>>
    /\ pc = "constructing"
    /\ call = NoCall
    /\ image = {}
    /\ call2 = NoCall
    /\ image2 = {}
    /\ reach = NoReach
    /\ first_result = {}
    /\ bench = NoBench
    /\ step = NoStep
    /\ domains = NoDomains

\* the for_each over the names of the input map
CheckNames ==
    /\ construction.stage = "check_names"
    /\ IF ReservedNameUsed(construction.input)
       THEN /\ construction' = [construction EXCEPT !.stage = "panicked",
                                                    !.message = Some(ReservedNameMessage)]
            /\ pc' = "panicked"
       ELSE /\ construction' = [construction EXCEPT !.stage = "sort"]
            /\ UNCHANGED pc
    /\ UNCHANGED <<domains, step, model, system, update_fns, call, image, call2, image2,
                   reach, first_result, bench>>

SortUpdateFns ==
    /\ construction.stage = "sort"
    /\ construction' =
          [construction EXCEPT
              !.stage = "find_max_values",
              !.named_update_fns_sorted = Some(NamedUpdateFnsSorted(construction.input))]
    /\ UNCHANGED <<domains, step, model, system, update_fns, pc, call, image, call2, image2,
                   reach, first_result, bench>>

DiscoverMaxValues ==
    /\ construction.stage = "find_max_values"
    /\ construction' =
          [construction EXCEPT
              !.stage = "allocate",
              !.max_values =
                  Some(FindMaxValues(Unwrap(construction.named_update_fns_sorted)))]
    /\ UNCHANGED <<domains, step, model, system, update_fns, pc, call, image, call2, image2,
                   reach, first_result, bench>>

\* the domains of every variable, then bdd_variable_set_builder.build()
AllocateAndBuild ==
    /\ construction.stage = "allocate"
    /\ LET allocated == AllocateDomains("unary",
                                        Unwrap(construction.named_update_fns_sorted),
                                        Unwrap(construction.max_values))
       IN  construction' =
              [construction EXCEPT
                  !.stage = "unit_set",
                  !.builder = allocated.builder,
                  !.named_symbolic_domains = allocated.named_symbolic_domains,
                  !.bdd_variable_set = Some(BuildVariableSet(allocated.builder))]
    /\ UNCHANGED <<domains, step, model, system, update_fns, pc, call, image, call2, image2,
                   reach, first_result, bench>>

\* unit_set; the update_fns iterator made before it has compiled nothing yet
BuildUnitSet ==
    /\ construction.stage = "unit_set"
    /\ construction' =
          [construction EXCEPT
              !.stage = "relations",
              !.unit_set = Some(UnitSet(Unwrap(construction.bdd_variable_set),
                                        construction.named_symbolic_domains))]
    /\ UNCHANGED <<domains, step, model, system, update_fns, pc, call, image, call2, image2,
                   reach, first_result, bench>>

\* the guards of update_fn that compile before one panics, all of them if none does
GuardsCompiled(update_fn, named_symbolic_domains_map) ==
    LET panicking == {j \in Indices(update_fn.terms) :
                         ExpressionPanics(update_fn.terms[j][2],
                                          named_symbolic_domains_map)}
    IN  IF panicking = {} THEN Len(update_fn.terms)
        ELSE (CHOOSE j \in panicking : \A o \in panicking : j <= o) - 1

\* one turn of the map over update_fns inside `relations`: the update function of
\* the next variable is compiled, then its relation is built
BuildRelation ==
    /\ construction.stage = "relations"
    /\ Len(construction.relations) < Len(construction.named_symbolic_domains)
    /\ LET i == Len(construction.relations) + 1
           named == Unwrap(construction.named_update_fns_sorted)[i]
           vs == Unwrap(construction.bdd_variable_set)
           named_symbolic_domains_map ==
               NamedSymbolicDomainsMap(construction.named_symbolic_domains)
           compiled_before ==
               construction.guards_compiled
               + GuardsCompiled(named[2], named_symbolic_domains_map)
       IN  IF FromUpdateFnPanics(named[2], named_symbolic_domains_map)
           THEN /\ construction' =
                      [construction EXCEPT !.stage = "panicked",
                                           !.guards_compiled = compiled_before,
                                           !.message = Some(MissingDomainMessage)]
                /\ pc' = "panicked"
           ELSE /\ construction' =
                      [construction EXCEPT
                          !.guards_compiled = compiled_before,
                          !.update_fns =
                              Append(@, FromUpdateFn(named[2], named[1], vs,
                                                     named_symbolic_domains_map)),
                          !.relations =
                              Append(@, TransitionRelation(
                                            vs, Unwrap(construction.unit_set),
                                            FromUpdateFn(named[2], named[1], vs,
                                                         named_symbolic_domains_map),
                                            construction.named_symbolic_domains[i]
                                                .primed_domain))]
                /\ UNCHANGED pc
    /\ UNCHANGED <<domains, step, model, system, update_fns, call, image, call2, image2,
                   reach, first_result, bench>>

\* the system is put together and returned
ReturnSystem ==
    /\ construction.stage = "relations"
    /\ Len(construction.relations) = Len(construction.named_symbolic_domains)
    /\ construction' = [construction EXCEPT !.stage = "done"]
    /\ system' = SystemOf([panicked |-> FALSE,
                           max_values |-> Unwrap(construction.max_values),
                           named_symbolic_domains |-> construction.named_symbolic_domains,
                           bdd_variable_set |-> Unwrap(construction.bdd_variable_set),
                           unit_set |-> Unwrap(construction.unit_set),
                           update_fns |-> construction.update_fns])
    /\ update_fns' = construction.update_fns
    /\ pc' = "ready"
    /\ UNCHANGED <<domains, step, model, call, image, call2, image2,
                   reach, first_result, bench>>

NextConstruction ==
    \/ CheckNames
    \/ SortUpdateFns
    \/ DiscoverMaxValues
    \/ AllocateAndBuild
    \/ BuildUnitSet
    \/ BuildRelation
    \/ ReturnSystem

SpecConstruction == InitConstruction /\ [][NextConstruction]_vars

\* no local of the constructor past the name check exists and nothing was returned
NothingBuilt ==
    /\ construction.named_update_fns_sorted = None
    /\ construction.max_values = None
    /\ construction.builder = <<>>
    /\ construction.named_symbolic_domains = <<>>
    /\ construction.bdd_variable_set = None
    /\ construction.unit_set = None
    /\ construction.guards_compiled = 0
    /\ construction.relations = <<>>
    /\ system = NoSystem

\* C18: from_update_fns panics on every input with a variable name that contains
\* the apostrophe, and does so before sorting, max discovery, domain allocation or
\* any BDD construction; so no accepted name equals the primed name of another.
ReservedNamesRejectedFirst ==
    construction # NoConstruction =>
        /\ (ReservedNameUsed(construction.input) /\ construction.stage # "check_names")
           => (/\ construction.stage = "panicked"
               /\ construction.message = Some(ReservedNameMessage)
               /\ NothingBuilt)
        /\ IsSome(construction.named_update_fns_sorted)
           => \A name \in DOMAIN construction.input,
                 other \in DOMAIN construction.input : name # PrimedName(other)

ReservedNamesWitness ==
    /\ construction # NoConstruction
    /\ construction.stage = "panicked"
    /\ NameA \in DOMAIN construction.input
    /\ PrimedName(NameA) \in DOMAIN construction.input

\* C19: on a malformed model, in particular one whose guard names a variable
\* without update function, construction fails before any BDD work: no BDD
\* variable is allocated, no guard compiled, and nothing is left behind.
MalformedFailsBeforeBddWork ==
    (construction # NoConstruction /\ construction.stage = "panicked") =>
        /\ construction.builder = <<>>
        /\ construction.bdd_variable_set = None
        /\ construction.unit_set = None
        /\ construction.guards_compiled = 0
        /\ construction.relations = <<>>
        /\ system = NoSystem

\* the propositions of an expression
RECURSIVE PropositionsOf(_)
PropositionsOf(expr) ==
    CASE expr.kind = "Terminal" -> {expr.proposition}
      [] expr.kind = "Not" -> PropositionsOf(expr.expression)
      [] expr.kind \in {"And", "Or"} ->
           UNION {PropositionsOf(expr.clauses[i]) : i \in Indices(expr.clauses)}
      [] expr.kind \in {"Xor", "Implies"} ->
           PropositionsOf(expr.lhs) \cup PropositionsOf(expr.rhs)

\* the literals a guard of any update function of m compares variable V against
LiteralsAbout(m, V) ==
    LET GuardPropositions(n) ==
            UNION {PropositionsOf(m[n].terms[j][2]) : j \in Indices(m[n].terms)}
    IN  {p.value : p \in {q \in UNION {GuardPropositions(n) : n \in DOMAIN m} :
                             q.variable = V}}

\* the outputs of the terms of V and its default
OutputsOf(m, V) == {m[V].terms[j][1] : j \in Indices(m[V].terms)} \cup {m[V].default}

\* C20: for every variable V of the model, the maximum its domains are allocated
\* with is the largest of V's term outputs, V's default and every literal a guard
\* of any update function compares V against, at any depth of Not, And, Or, Xor
\* and Implies; so every such literal is inside V's domain.
MaxDiscovery ==
    (construction # NoConstruction /\ IsSome(construction.max_values)) =>
        \A V \in DOMAIN construction.input :
            LET max == Unwrap(construction.max_values)[V]
            IN  /\ max = MaxOf(OutputsOf(construction.input, V)
                               \cup LiteralsAbout(construction.input, V))
                /\ \A literal \in LiteralsAbout(construction.input, V) : literal <= max
                /\ \A i \in Indices(construction.named_symbolic_domains) :
                      construction.named_symbolic_domains[i].name = V =>
                          /\ SymbolicSize(construction.named_symbolic_domains[i].domain)
                                = max
                          /\ SymbolicSize(
                                 construction.named_symbolic_domains[i].primed_domain)
                                = max

MaxDiscoveryWitness ==
    /\ construction # NoConstruction
    /\ construction.input = DeepGuardModel
    /\ construction.stage = "unit_set"
    /\ Unwrap(construction.max_values)[NameB] = 3
    /\ Unwrap(construction.max_values)[NameA] = 2

-----------------------------------------------------------------------------
(* The loop-excluding image operators *)

\* the message of todo!()
TodoMessage == <<"not yet implemented">>

\* SmartSystemUpdateFn::successors_async_exclude_loops: the body is todo!()
CallSuccessorsAsyncExcludeLoops ==
    /\ pc = "ready"
    /\ \E v \in DOMAIN model, S \in InputSets(system) :
           call' = [op |-> "successors_async_exclude_loops", variable |-> v, set |-> S]
    /\ call2' = Panic(TodoMessage)
    /\ pc' = "panicked"
    /\ UNCHANGED <<domains, construction, step, model, system, update_fns, image, image2,
                   reach, first_result, bench>>

\* SmartSystemUpdateFn::predecessors_async_exclude_loops: the body is todo!()
CallPredecessorsAsyncExcludeLoops ==
    /\ pc = "ready"
    /\ \E v \in DOMAIN model, S \in InputSets(system) :
           call' = [op |-> "predecessors_async_exclude_loops", variable |-> v, set |-> S]
    /\ call2' = Panic(TodoMessage)
    /\ pc' = "panicked"
    /\ UNCHANGED <<domains, construction, step, model, system, update_fns, image, image2,
                   reach, first_result, bench>>

NextLoops == CallSuccessorsAsyncExcludeLoops \/ CallPredecessorsAsyncExcludeLoops

SpecLoops == InitImage /\ [][NextLoops]_vars

\* the states whose update of variable v changes the value of v
EnabledUnder(m, v) == {s \in States(m) : StepOf(m, v, s) # s}

\* C21: successors_async_exclude_loops(V, S) returns the V-successors of the states
\* of S whose V-update changes V, and predecessors_async_exclude_loops(V, S) returns
\* the V-predecessors of S whose V-update changes V.
ExcludeLoopsReturnProperImages ==
    /\ call.op = "successors_async_exclude_loops" =>
          /\ pc = "returned"
          /\ image = SetOfStates(system,
                        {StepOf(model, call.variable, s) :
                            s \in StatesIn(model, system, call.set)
                                  \cap EnabledUnder(model, call.variable)})
    /\ call.op = "predecessors_async_exclude_loops" =>
          /\ pc = "returned"
          /\ image = SetOfStates(system,
                        {s \in EnabledUnder(model, call.variable) :
                            StepOf(model, call.variable, s)
                                \in StatesIn(model, system, call.set)})

-----------------------------------------------------------------------------
(* Two runs of the constructor on one map, enumerated in two orders *)

\* the orders in which into_iter() of the HashMap can yield the entries
Enumerations(vars_and_their_update_fns) ==
    LET names == DOMAIN vars_and_their_update_fns
        orders == {o \in [1..Cardinality(names) -> names] :
                      \A i, j \in DOMAIN o : o[i] = o[j] => i = j}
    IN  {[i \in DOMAIN o |-> <<o[i], vars_and_their_update_fns[o[i]]>>] : o \in orders}

\* a vector left in the order of the enumeration
KeptAsEnumerated(to_be_sorted) == to_be_sorted

RECURSIVE SortByKey(_)
\* sort_by_key on the variable name: stable, ascending by the order of String
SortByKey(to_be_sorted) ==
    IF to_be_sorted = <<>> THEN <<>>
    ELSE LET head == Head(to_be_sorted)
             rest == SortByKey(Tail(to_be_sorted))
             Before(e) == StrLess(e[1], head[1])
             NotBefore(e) == ~StrLess(e[1], head[1])
         IN  SelectSeq(rest, Before) \o <<head>> \o SelectSeq(rest, NotBefore)

\* three variables, six enumeration orders
ThreeModel ==
    ToggleModel @@ (NameX :> UpdateFn(<< <<2, T(NameA, "Eq", 1)>> >>, 0))

RunInputs == Models \cup {ThreeModel}

\* the locals of a run that starts from the enumeration, and the finished run before it
EnterRun(vars_and_their_update_fns, enumeration, previous) ==
    [stage |-> "check_names",
     input |-> vars_and_their_update_fns,
     enumeration |-> enumeration,
     previous |-> previous,
     named_update_fns_sorted |-> None,
     max_values |-> None,
     builder |-> <<>>,
     named_symbolic_domains |-> <<>>,
     bdd_variable_set |-> None,
     unit_set |-> None,
     guards_compiled |-> 0,
     update_fns |-> <<>>,
     relations |-> <<>>,
     message |-> None]

InitRuns ==
    /\ \E m \in RunInputs :
          /\ model = m
          /\ \E e \in Enumerations(m) : construction = EnterRun(m, e, None)
    /\ system = NoSystem
    /\ update_fns = <<>>
    /\ pc = "constructing"
    /\ call = NoCall
    /\ image = {}
    /\ call2 = NoCall
    /\ image2 = {}
    /\ reach = NoReach
    /\ first_result = {}
    /\ bench = NoBench
    /\ step = NoStep
    /\ domains = NoDomains

\* named_update_fns_sorted: the entries as enumerated, then sorted by name
SortEnumerated ==
    /\ construction.stage = "sort"
    /\ construction' =
          [construction EXCEPT
              !.stage = "find_max_values",
              !.named_update_fns_sorted = Some(SortByKey(construction.enumeration))]
    /\ UNCHANGED <<domains, step, model, system, update_fns, pc, call, image, call2, image2,
                   reach, first_result, bench>>

\* a second run on the same map, its entries enumerated in any order
RunAgain ==
    /\ construction.stage = "done"
    /\ construction.previous = None
    /\ \E e \in Enumerations(model) :
           construction' = EnterRun(model, e, Some([construction EXCEPT !.previous = None]))
    /\ system' = NoSystem
    /\ update_fns' = <<>>
    /\ pc' = "constructing"
    /\ UNCHANGED <<domains, step, model, call, image, call2, image2,
                   reach, first_result, bench>>

NextRuns ==
    \/ CheckNames
    \/ SortEnumerated
    \/ DiscoverMaxValues
    \/ AllocateAndBuild
    \/ BuildUnitSet
    \/ BuildRelation
    \/ ReturnSystem
    \/ RunAgain

SpecRuns == InitRuns /\ [][NextRuns]_vars

\* the BDD variables in allocation order: per variable of the sorted list its
\* unprimed block, then its primed block
BlocksInNameOrder(named_symbolic_domains) ==
    LET Step(acc, d) ==
            acc \o RawBddVariables(d.domain) \o RawBddVariables(d.primed_domain)
    IN  FoldSeq(Step, <<>>, named_symbolic_domains)

\* C22: two finished runs of from_update_fns on the same map, whatever the two
\* enumeration orders of the map, have the same sorted variable list, the same BDD
\* variable order (per variable in name order the unprimed block, then the primed
\* block), the same maxima, the same bit-answering BDDs and the same relations.
ConstructionIsDeterministic ==
    (construction.stage = "done" /\ IsSome(construction.previous)) =>
        LET first == Unwrap(construction.previous)
            sorted == Unwrap(construction.named_update_fns_sorted)
        IN  /\ sorted = Unwrap(first.named_update_fns_sorted)
            /\ \A i, j \in Indices(sorted) : i < j => StrLess(sorted[i][1], sorted[j][1])
            /\ construction.builder = first.builder
            /\ construction.bdd_variable_set = first.bdd_variable_set
            /\ construction.named_symbolic_domains = first.named_symbolic_domains
            /\ \A i \in Indices(sorted) :
                   construction.named_symbolic_domains[i].name = sorted[i][1]
            /\ BlocksInNameOrder(construction.named_symbolic_domains)
                   = [k \in 1..Len(construction.builder) |-> k]
            /\ construction.max_values = first.max_values
            /\ construction.update_fns = first.update_fns
            /\ construction.relations = first.relations
            /\ construction.unit_set = first.unit_set

\* the second run of the three-variable map is finished and its entries came in
\* an order different from the first run's, neither of them sorted
ConstructionIsDeterministicWitness ==
    /\ construction.stage = "done"
    /\ IsSome(construction.previous)
    /\ Cardinality(DOMAIN model) = 3
    /\ construction.enumeration # Unwrap(construction.previous).enumeration
    /\ construction.enumeration # Unwrap(construction.named_update_fns_sorted)
    /\ Unwrap(construction.previous).enumeration
           # Unwrap(construction.named_update_fns_sorted)
    /\ pc = "ready"

-----------------------------------------------------------------------------
(* The boundary case: one variable whose discovered maximum is 0 *)

\* one-variable maps whose outputs, default and compared literals are all 0
ZeroModels ==
    {LoneModel,
     (NameX :> UpdateFn(<< <<0, T(NameX, "Eq", 0)>> >>, 0)),
     (NameX :> UpdateFn(<< <<0, ENot(T(NameX, "Geq", 0))>>, <<0, T(NameX, "Leq", 0)>> >>, 0)),
     (NameX :> UpdateFn(<< <<0, EOr(<<T(NameX, "Gt", 0), T(NameX, "Neq", 0)>>)>> >>, 0))}

InitBoundary ==
    /\ model \in Models \cup ZeroModels
    /\ system = FromUpdateFns("unary", model)
    /\ update_fns = Compiled("unary", model).update_fns
    /\ pc = "ready"
    /\ call = NoCall
    /\ image = {}
    /\ call2 = NoCall
    /\ image2 = {}
    /\ reach = NoReach
    /\ first_result = {}
    /\ bench = NoBench
    /\ step = NoStep
    /\ domains = NoDomains
    /\ construction = NoConstruction

NextBoundary ==
    \/ CallSuccessorsAsync
    \/ CallPredecessorsAsync
    \/ ReachCall
    \/ ReachStep
    \/ ReachReturn

SpecBoundary == InitBoundary /\ [][NextBoundary]_vars

\* the map has a single variable and its discovered maximum is 0
SingleVariableOfMaximumZero(m) ==
    /\ Cardinality(DOMAIN m) = 1
    /\ \A n \in DOMAIN m : MaxValues(m)[n] = 0

\* C23: for a model with a single variable whose discovered maximum is 0 the
\* construction succeeds with one state and no encoding bit, the transition
\* relation is the identity on the lone state, successors and predecessors of any
\* set S equal S, and reach_fwd of any non-empty set returns the universe.
LoneStateBoundary ==
    SingleVariableOfMaximumZero(model) =>
        /\ ~system.panicked
        /\ Cardinality(States(model)) = 1
        /\ \A i \in Indices(system.variables_transition_relation_and_domain) :
              LET info == system.variables_transition_relation_and_domain[i]
              IN  /\ SymbolicSize(info.domain) = 0
                  /\ SymbolicSize(info.primed_domain) = 0
                  /\ info.transition_relation
                        = {PatternOf(system, s) : s \in States(model)}
        /\ (pc = "returned" /\ call.op \in {"successors_async", "predecessors_async"})
              => image = call.set
        /\ (pc = "returned" /\ reach.dir = "fwd" /\ reach.initial # {})
              => reach.result = UnitVertexSet(system)

\* witness of C23: reach_fwd has returned on the lone-state system from a
\* non-empty set, after its loop over the one variable found nothing new
LoneStateBoundaryWitness ==
    /\ SingleVariableOfMaximumZero(model)
    /\ Len(model[NameX].terms) = 2
    /\ pc = "returned"
    /\ reach.dir = "fwd"
    /\ reach.initial # {}
    /\ reach.pos = 2
    /\ reach.result = UnitVertexSet(system)

-----------------------------------------------------------------------------
(* encode_bits on a partial valuation that already holds values *)

\* BddPartialValuation: a value for some of the BDD variables, here for at most
\* MaxSetSize of them
PartialValuations(vs) ==
    UNION {[D -> BOOLEAN] : D \in SubsetsUpTo(BddVariables(vs), MaxSetSize)}

\* domains x and y with a BDD variable between them that belongs to neither
NewDomainsAmongOthers(max_x, max_y) ==
    LET x == UnaryIntegerDomainNew(<<>>, NameX, max_x)
        other == MakeVariables(x.builder, <<"Z">>, 1)
        y == UnaryIntegerDomainNew(other.builder, <<"Y">>, max_y)
    IN  [var_set |-> BuildVariableSet(y.builder),
         state_space |-> GenericStateSpaceDomainNew(<<x.domain, y.domain>>),
         max_values |-> <<max_x, max_y>>,
         op |-> "none", target |-> 0, input |-> <<>>, bdd |-> {},
         decoded |-> None,
         bdd_valuation |-> EmptyValuation]

InitFrame ==
    /\ \E max_x \in 0..MaxDomainValue, max_y \in 0..MaxDomainValue :
          domains = NewDomainsAmongOthers(max_x, max_y)
    /\ model = <<>>
    /\ system = [panicked |-> FALSE]
    /\ update_fns = <<>>
    /\ pc = "ready"
    /\ call = NoCall
    /\ image = {}
    /\ call2 = NoCall
    /\ image2 = {}
    /\ reach = NoReach
    /\ first_result = {}
    /\ bench = NoBench
    /\ step = NoStep
    /\ construction = NoConstruction

\* encode_bits of a variable domain on a valuation, with values past the maximum
CallEncodeBits ==
    /\ domains.op = "none"
    /\ \E target \in 1..2, p \in PartialValuations(domains.var_set) :
          \E value \in 0..(domains.max_values[target] + 1) :
             domains' = [domains EXCEPT
                            !.op = "encode_bits", !.target = target,
                            !.input = [bdd_valuation |-> p, value |-> value],
                            !.bdd_valuation =
                                EncodeBits(TargetDomain(domains, target), p, value)]
    /\ UNCHANGED <<construction, step, model, system, update_fns, pc, call, image,
                   call2, image2, reach, first_result, bench>>

\* encode_bits of the state space on a valuation
CallEncodeBitsOfStateSpace ==
    /\ domains.op = "none"
    /\ \E p \in PartialValuations(domains.var_set) :
          \E x \in 0..(domains.max_values[1] + 1), y \in 0..(domains.max_values[2] + 1) :
             domains' = [domains EXCEPT
                            !.op = "encode_bits", !.target = 0,
                            !.input = [bdd_valuation |-> p, value |-> <<x, y>>],
                            !.bdd_valuation =
                                StateSpaceEncodeBits(domains.state_space, p, <<x, y>>)]
    /\ UNCHANGED <<construction, step, model, system, update_fns, pc, call, image,
                   call2, image2, reach, first_result, bench>>

NextFrame == CallEncodeBits \/ CallEncodeBitsOfStateSpace

SpecFrame == InitFrame /\ [][NextFrame]_vars

\* C24: after encode_bits(p, v) every BDD variable outside symbolic_variables() of
\* the domain has the value, or the absence of a value, it had in p before the
\* call; for a unary domain and, over the union of its components, for the state
\* space domain.
EncodeBitsKeepsOtherVariables ==
    domains.op = "encode_bits" =>
        LET before == domains.input.bdd_valuation
            after == domains.bdd_valuation
            own == Range(ImplSymbolicVariables(TargetDomain(domains, domains.target)))
        IN  \A var \in BddVariables(domains.var_set) \ own :
                /\ (var \in DOMAIN after) <=> (var \in DOMAIN before)
                /\ var \in DOMAIN before => after[var] = before[var]

\* witness of C24: the state space encoded a vector into a valuation that held a
\* value for the foreign variable and a different value for one of its own
EncodeBitsKeepsOtherVariablesWitness ==
    /\ domains.op = "encode_bits"
    /\ domains.target = 0
    /\ LET before == domains.input.bdd_valuation
           after == domains.bdd_valuation
           own == Range(StateSpaceSymbolicVariables(domains.state_space))
       IN  /\ \E var \in DOMAIN before \ own : after[var] = before[var]
           /\ \E var \in DOMAIN before \cap own : after[var] # before[var]
           /\ \E var \in own : var \notin DOMAIN before

-----------------------------------------------------------------------------
\* C25: each stored transition relation T_V depends only on unprimed bits and on
\* the primed bits of V, and a valuation satisfies T_V iff it is in the unit set of
\* the unprimed domains, its primed bits of V are a valid encoding, and each primed
\* bit of V has the value of the bit-answering BDD of that index.
RelationIsUnitSetAndBoundBits ==
    (construction.stage \in {"relations", "done"}) =>
        \A i \in Indices(construction.relations) :
            LET vs == Unwrap(construction.bdd_variable_set)
                info == construction.named_symbolic_domains[i]
                answers == construction.update_fns[i]
                primed == RawBddVariables(info.primed_domain)
                unprimed ==
                    UNION {Range(RawBddVariables(construction.named_symbolic_domains[j].domain)) :
                              j \in Indices(construction.named_symbolic_domains)}
                relation == construction.relations[i]
            IN  /\ SupportSet(vs, relation) \subseteq unprimed \cup Range(primed)
                /\ Len(answers) = Len(primed)
                /\ \A a \in AllValuations(vs) :
                       a \in relation <=>
                           /\ a \in Unwrap(construction.unit_set)
                           /\ a \in UnitCollection(vs, info.primed_domain)
                           /\ \A k \in Indices(primed) :
                                  (primed[k] \in a) <=> (a \in answers[k][2])

\* witness of C25: the constructor returned a system of two variables, and the
\* relation of the first leaves the primed bit of the second free while it binds
\* its own primed bit to a bit-answering BDD that is neither true nor false
RelationIsUnitSetAndBoundBitsWitness ==
    /\ construction.stage = "done"
    /\ pc = "ready"
    /\ Len(construction.relations) = 2
    /\ LET vs == Unwrap(construction.bdd_variable_set)
           other == RawBddVariables(construction.named_symbolic_domains[2].primed_domain)
           answers == construction.update_fns[1]
       IN  /\ Len(other) > 0
           /\ Range(other) \cap SupportSet(vs, construction.relations[1]) = {}
           /\ Len(answers) > 0
           /\ ~IsTrue(vs, answers[1][2])
           /\ ~IsFalse(answers[1][2])

-----------------------------------------------------------------------------
(* The image operators, one rename_variable at a time *)

\* successors_async: the pairs <<source, target>> of its renames, in fold order
SuccessorsRenames(info) ==
    [k \in Indices(RawBddVariables(info.domain)) |->
        <<RawBddVariables(info.primed_domain)[k], RawBddVariables(info.domain)[k]>>]

\* the renames of predecessors_async without the .rev()
PredecessorsRenamesFirstToLast(info) ==
    [k \in Indices(RawBddVariables(info.domain)) |->
        <<RawBddVariables(info.domain)[k], RawBddVariables(info.primed_domain)[k]>>]

\* predecessors_async: the pairs <<source, target>> of its renames, in fold order
PredecessorsRenames(info) ==
    Reverse([k \in Indices(RawBddVariables(info.domain)) |->
                <<RawBddVariables(info.domain)[k], RawBddVariables(info.primed_domain)[k]>>])

\* the renames of the call in progress
RenamesOf(sys, c) ==
    IF c.op = "successors_async"
    THEN SuccessorsRenames(GetTransitionRelationAndDomain(sys, c.variable))
    ELSE PredecessorsRenames(GetTransitionRelationAndDomain(sys, c.variable))

\* the sets handed to the operators, among them some that depend on a primed bit
RenameInputSets(sys) ==
    InputSets(sys) \cup {MkVar(sys.bdd_variable_set, v) : v \in PrimedVariables(sys)}

\* successors_async up to the fold: S and T, the unprimed bits of V quantified away
EnterSuccessorsAsync ==
    /\ pc = "ready"
    /\ \E v \in DOMAIN model, S \in RenameInputSets(system) :
        LET info == GetTransitionRelationAndDomain(system, v)
        IN  /\ call' = [op |-> "successors_async", variable |-> v, set |-> S,
                        renamed |-> 0]
            /\ image' = BddExists(BddAnd(S, info.transition_relation),
                                  Range(RawBddVariables(info.domain)))
    /\ pc' = "renaming"
    /\ UNCHANGED <<domains, construction, step, model, system, update_fns, call2, image2,
                   reach, first_result, bench>>

\* predecessors_async up to the fold: the accumulator is the source set
EnterPredecessorsAsync ==
    /\ pc = "ready"
    /\ \E v \in DOMAIN model, S \in RenameInputSets(system) :
        /\ call' = [op |-> "predecessors_async", variable |-> v, set |-> S,
                    renamed |-> 0]
        /\ image' = S
    /\ pc' = "renaming"
    /\ UNCHANGED <<domains, construction, step, model, system, update_fns, call2, image2,
                   reach, first_result, bench>>

\* one turn of the fold: unsafe { acc.rename_variable(source, target) }; a rename
\* that breaks the variable order leaves a BDD on which nothing is defined
RenameNext ==
    /\ pc = "renaming"
    /\ call.renamed < Len(RenamesOf(system, call))
    /\ LET pair == RenamesOf(system, call)[call.renamed + 1]
       IN  IF RenameIsSound(system.bdd_variable_set, image, pair[1], pair[2])
           THEN /\ image' = RenameVariable(image, pair[1], pair[2])
                /\ UNCHANGED pc
           ELSE /\ image' \in {image, RenameVariable(image, pair[1], pair[2])}
                /\ pc' = "ill_ordered"
    /\ call' = [call EXCEPT !.renamed = @ + 1]
    /\ UNCHANGED <<domains, construction, step, model, system, update_fns, call2, image2,
                   reach, first_result, bench>>

\* successors_async returns the accumulator of the fold
LeaveSuccessorsAsync ==
    /\ pc = "renaming"
    /\ call.op = "successors_async"
    /\ call.renamed = Len(RenamesOf(system, call))
    /\ pc' = "returned"
    /\ UNCHANGED <<domains, construction, step, model, system, update_fns, call, image,
                   call2, image2, reach, first_result, bench>>

\* predecessors_async: the renamed set and T, the primed bits of V quantified away
LeavePredecessorsAsync ==
    /\ pc = "renaming"
    /\ call.op = "predecessors_async"
    /\ call.renamed = Len(RenamesOf(system, call))
    /\ LET info == GetTransitionRelationAndDomain(system, call.variable)
       IN  image' = BddExists(BddAnd(image, info.transition_relation),
                              Range(RawBddVariables(info.primed_domain)))
    /\ pc' = "returned"
    /\ UNCHANGED <<domains, construction, step, model, system, update_fns, call,
                   call2, image2, reach, first_result, bench>>

NextRenames ==
    \/ EnterSuccessorsAsync
    \/ EnterPredecessorsAsync
    \/ RenameNext
    \/ LeaveSuccessorsAsync
    \/ LeavePredecessorsAsync

SpecRenames == InitImage /\ [][NextRenames]_vars

\* C26: for every input set that does not depend on primed bits, whenever
\* successors_async or predecessors_async is about to rename a variable, the target
\* is not in the support of the BDD being renamed and no support variable lies
\* between source and target in the BDD variable order.
RenamesAreSound ==
    (/\ pc = "renaming"
     /\ call.renamed < Len(RenamesOf(system, call))
     /\ IndependentOfPrimed(system, call.set)) =>
        LET pair == RenamesOf(system, call)[call.renamed + 1]
        IN  RenameIsSound(system.bdd_variable_set, image, pair[1], pair[2])

\* witness of C26: predecessors_async on a two-bit variable is about to rename its
\* first bit, the last one being renamed already, and the set depends on both
RenamesAreSoundWitness ==
    /\ pc = "renaming"
    /\ call.op = "predecessors_async"
    /\ IndependentOfPrimed(system, call.set)
    /\ Len(RenamesOf(system, call)) = 2
    /\ call.renamed = 1
    /\ LET pairs == RenamesOf(system, call)
       IN  {pairs[1][2], pairs[2][1]} \subseteq SupportSet(system.bdd_variable_set, image)

\* the stepwise operators return what the operators return
RenamesReturnTheImage ==
    (pc = "returned" /\ IndependentOfPrimed(system, call.set)) =>
        image = IF call.op = "successors_async"
                THEN SuccessorsAsync(system, call.variable, call.set)
                ELSE PredecessorsAsync(system, call.variable, call.set)

-----------------------------------------------------------------------------
\* the result of the running reach_fwd / reach_bwd is closed under the image of
\* every variable the for loop has passed since it last started over
ClosedUnderVisited ==
    pc = "reach" =>
        /\ \A i, j \in Indices(VisitOrder(system)) :
               i < j => StrLess(VisitOrder(system)[j], VisitOrder(system)[i])
        /\ \A j \in 1..(reach.pos - 1) :
               /\ j <= Len(VisitOrder(system))
               /\ ImageUnder(system, reach.dir, VisitOrder(system)[j], reach.result)
                     \subseteq reach.result

\* a step that adds states starts over from the largest name, any other step goes
\* on with the next smaller name
RestartsAfterProgress ==
    (pc = "reach" /\ pc' = "reach" /\ reach'.caller = reach.caller
                  /\ reach'.initial = reach.initial /\ reach'.dir = reach.dir) =>
        IF reach'.result # reach.result
        THEN reach'.pos = 1
        ELSE reach'.pos = reach.pos + 1

\* C27: reach_fwd and reach_bwd visit the variables in descending name order and
\* start over from the largest name after every step that adds states, so whenever
\* the image under a variable is computed the result is closed under the image of
\* every variable before it in the visiting order.
SaturationSchedule == []ClosedUnderVisited /\ [][RestartsAfterProgress]_vars

\* witness of C27: reach_fwd is at the second variable of its order after it has
\* started over at least once, the result being larger than the initial set
SaturationScheduleWitness ==
    /\ pc = "reach"
    /\ reach.dir = "fwd"
    /\ reach.pos = 2
    /\ reach.result # reach.initial
    /\ Len(VisitOrder(system)) = 2
    /\ SuccessorsAsync(system, VisitOrder(system)[2], reach.result) \subseteq reach.result

-----------------------------------------------------------------------------
(* SystemUpdateFn: the eager system, over the unprimed variables only *)

\* SystemUpdateFn::from_update_fns: one domain per variable in name order, the
\* update functions compiled at once
EagerFromUpdateFns(kind, vars_and_their_update_fns) ==
    LET named_update_fns_sorted == NamedUpdateFnsSorted(vars_and_their_update_fns)
        max_values == FindMaxValues(named_update_fns_sorted)
        Step(ctx, named) ==
            LET made == DomainNew(kind, ctx.builder, named[1], max_values[named[1]])
            IN  [symbolic_domains |-> Append(ctx.symbolic_domains, made.domain),
                 builder |-> made.builder]
        allocated == FoldSeq(Step, [symbolic_domains |-> <<>>, builder |-> <<>>],
                             named_update_fns_sorted)
        bdd_variable_set == BuildVariableSet(allocated.builder)
        named_symbolic_domains ==
            [name \in DOMAIN vars_and_their_update_fns |->
                allocated.symbolic_domains[
                    CHOOSE i \in Indices(named_update_fns_sorted) :
                        named_update_fns_sorted[i][1] = name]]
    IN  [update_fns |->
            [i \in Indices(named_update_fns_sorted) |->
                [name |-> named_update_fns_sorted[i][1],
                 update_fn |-> FromUpdateFn(named_update_fns_sorted[i][2],
                                            named_update_fns_sorted[i][1],
                                            bdd_variable_set, named_symbolic_domains),
                 domain |-> allocated.symbolic_domains[i]]],
         bdd_variable_set |-> bdd_variable_set]

\* get_update_fn_and_domain_of: the first entry of that name
GetUpdateFnAndDomainOf(eager, variable_name) ==
    eager.update_fns[CHOOSE i \in Indices(eager.update_fns) :
                        /\ eager.update_fns[i].name = variable_name
                        /\ \A j \in 1..(i - 1) : eager.update_fns[j].name # variable_name]

\* the values of the domain, each as the bits of its encoding
EachAllowedValueBitEncoded(vs, domain) ==
    LET values == DecodeCollection(vs, domain, UnitCollection(vs, domain))
    IN  [i \in Indices(values) |-> RawBddVariablesEncode(domain, values[i])]

\* the conjunction of the unit collections of all domains
EagerUnitCollection(eager) ==
    LET Step(acc, entry) ==
            BddAnd(acc, UnitCollection(eager.bdd_variable_set, entry.domain))
    IN  FoldSeq(Step, MkTrue(eager.bdd_variable_set), eager.update_fns)

\* the states, valid or not, at which the bit-answering BDDs give the bits val_bits
AnswersAre(vs, start, bit_answering_bdds, val_bits) ==
    LET zipped == IF Len(bit_answering_bdds) < Len(val_bits)
                  THEN Len(bit_answering_bdds) ELSE Len(val_bits)
        Step(acc, k) == IF val_bits[k] THEN BddAnd(acc, bit_answering_bdds[k][2])
                        ELSE BddAndNot(acc, bit_answering_bdds[k][2])
    IN  FoldSeq(Step, start, [k \in 1..zipped |-> k])

\* the states with the answers val_bits, valid or not
CapableWithoutUnitCollection(vs, unit_collection, bit_answering_bdds, val_bits) ==
    AnswersAre(vs, MkTrue(vs), bit_answering_bdds, val_bits)

\* successors_async: any_state_capable_of_transitioning_into_target_value
CapableOfTransitioningInto(vs, unit_collection, bit_answering_bdds, val_bits) ==
    BddAnd(AnswersAre(vs, MkTrue(vs), bit_answering_bdds, val_bits), unit_collection)

\* successors_async: one turn of the fold over the values of the domain
EagerTransitioned(vs, source_states_set, unit_collection, entry, val_bits) ==
    LET raw == RawBddVariables(entry.domain)
        those_from_source ==
            BddAnd(source_states_set,
                   CapableOfTransitioningInto(vs, unit_collection, entry.update_fn, val_bits))
        with_forgotten_values == BddExists(those_from_source, Range(raw))
    IN  BddSelect(with_forgotten_values,
                  [v \in Range(raw) |-> val_bits[CHOOSE k \in Indices(raw) : raw[k] = v]])

\* SystemUpdateFn::successors_async
EagerSuccessorsAsync(eager, transition_variable_name, source_states_set) ==
    LET vs == eager.bdd_variable_set
        entry == GetUpdateFnAndDomainOf(eager, transition_variable_name)
        unit_collection == EagerUnitCollection(eager)
        Step(acc, val_bits) ==
            BddOr(acc, EagerTransitioned(vs, source_states_set, unit_collection,
                                         entry, val_bits))
        unpruned_res ==
            FoldSeq(Step, MkFalse(vs), EachAllowedValueBitEncoded(vs, entry.domain))
    IN  BddAnd(unpruned_res, unit_collection)

\* predecessors_async: one turn of the fold over the values of the domain
EagerPredecessorsOf(vs, source_states, unit_set, entry, val_bits) ==
    LET zipped == IF Len(entry.update_fn) < Len(val_bits)
                  THEN Len(entry.update_fn) ELSE Len(val_bits)
        filter == [k \in 1..zipped |-> <<entry.update_fn[k][1], val_bits[k]>>]
        filtered == {filter[k][1] : k \in Indices(filter)}
        those_from_source_with_target_value ==
            BddSelect(source_states,
                      [v \in filtered |->
                          filter[CHOOSE k \in Indices(filter) : filter[k][1] = v][2]])
        possible_predecessors ==
            BddAnd(BddExists(those_from_source_with_target_value, filtered),
                   UnitCollection(vs, entry.domain))
    IN  BddAnd(possible_predecessors, AnswersAre(vs, unit_set, entry.update_fn, val_bits))

\* SystemUpdateFn::predecessors_async
EagerPredecessorsAsync(eager, transition_variable_name, source_states) ==
    LET vs == eager.bdd_variable_set
        entry == GetUpdateFnAndDomainOf(eager, transition_variable_name)
        unit_set == EagerUnitCollection(eager)
        Step(acc, val_bits) ==
            BddOr(acc, EagerPredecessorsOf(vs, source_states, unit_set, entry, val_bits))
    IN  FoldSeq(Step, MkFalse(vs), EachAllowedValueBitEncoded(vs, entry.domain))

\* a bit pattern of the eager system as the same pattern of the relational one:
\* the BDD variables of the same name
PatternInSystem(sys, eager, pattern) ==
    {v \in BddVariables(sys.bdd_variable_set) :
        \E w \in pattern : sys.bdd_variable_set.names[v] = eager.bdd_variable_set.names[w]}

\* a BDD of the eager system as the BDD of the relational system over the
\* unprimed bits that holds the same patterns
SetInSystem(sys, eager, set) ==
    SetOfPatterns(sys, {PatternInSystem(sys, eager, pattern) : pattern \in set})

\* the sets handed to the eager operators: every set of at most MaxSetSize bit
\* patterns, valid or not
EagerInputSets(eager) ==
    SubsetsUpTo(SUBSET BddVariables(eager.bdd_variable_set), MaxSetSize)

\* both systems are built from the same map
InitAgree ==
    /\ model \in Models
    /\ system = FromUpdateFns("unary", model)
    /\ update_fns = EagerFromUpdateFns("unary", model)
    /\ pc = "ready"
    /\ call = NoCall
    /\ image = {}
    /\ call2 = NoCall
    /\ image2 = {}
    /\ reach = NoReach
    /\ first_result = {}
    /\ bench = NoBench
    /\ step = NoStep
    /\ domains = NoDomains
    /\ construction = NoConstruction

CallEagerSuccessorsAsync ==
    /\ pc = "ready"
    /\ \E v \in DOMAIN model, S \in EagerInputSets(update_fns) :
        /\ call2' = [op |-> "successors_async", variable |-> v, set |-> S]
        /\ image2' = EagerSuccessorsAsync(update_fns, v, S)
    /\ pc' = "eager_returned"
    /\ UNCHANGED <<domains, construction, step, model, system, update_fns, call, image,
                   reach, first_result, bench>>

CallEagerPredecessorsAsync ==
    /\ pc = "ready"
    /\ \E v \in DOMAIN model, S \in EagerInputSets(update_fns) :
        /\ call2' = [op |-> "predecessors_async", variable |-> v, set |-> S]
        /\ image2' = EagerPredecessorsAsync(update_fns, v, S)
    /\ pc' = "eager_returned"
    /\ UNCHANGED <<domains, construction, step, model, system, update_fns, call, image,
                   reach, first_result, bench>>

\* the relational successors_async on the arguments of the eager call
CallSuccessorsAsyncOnSame ==
    /\ pc = "eager_returned"
    /\ call2.op = "successors_async"
    /\ call' = [op |-> "successors_async", variable |-> call2.variable,
                set |-> SetInSystem(system, update_fns, call2.set)]
    /\ image' = SuccessorsAsync(system, call2.variable,
                                SetInSystem(system, update_fns, call2.set))
    /\ pc' = "both_returned"
    /\ UNCHANGED <<domains, construction, step, model, system, update_fns, call2, image2,
                   reach, first_result, bench>>

\* the relational predecessors_async on the arguments of the eager call
CallPredecessorsAsyncOnSame ==
    /\ pc = "eager_returned"
    /\ call2.op = "predecessors_async"
    /\ call' = [op |-> "predecessors_async", variable |-> call2.variable,
                set |-> SetInSystem(system, update_fns, call2.set)]
    /\ image' = PredecessorsAsync(system, call2.variable,
                                  SetInSystem(system, update_fns, call2.set))
    /\ pc' = "both_returned"
    /\ UNCHANGED <<domains, construction, step, model, system, update_fns, call2, image2,
                   reach, first_result, bench>>

NextAgree ==
    \/ CallEagerSuccessorsAsync
    \/ CallEagerPredecessorsAsync
    \/ CallSuccessorsAsyncOnSame
    \/ CallPredecessorsAsyncOnSame

SpecAgree == InitAgree /\ [][NextAgree]_vars

\* C28: for every model, variable V and set S over the unprimed state bits, bit
\* patterns outside the unit collection included, SystemUpdateFn::successors_async
\* and SmartSystemUpdateFn::successors_async return the same set of states, and so
\* do the two predecessors_async.
EagerAndRelationalAgree ==
    pc = "both_returned" => image = SetInSystem(system, update_fns, image2)

\* witness of C28: both predecessors_async returned a non-empty set for a set that
\* holds a valid state beside a bit pattern outside the unit collection
EagerAndRelationalAgreeWitness ==
    /\ pc = "both_returned"
    /\ call.op = "predecessors_async"
    /\ image2 # {}
    /\ call2.set \cap EagerUnitCollection(update_fns) # {}
    /\ ~(call2.set \subseteq EagerUnitCollection(update_fns))
    /\ Cardinality(DOMAIN model) = 2

-----------------------------------------------------------------------------
(* The rounds of ComputationStep: initialize, then steps until no result is left *)

\* a step that ends a round leaves no state of the round's result, the state
\* initialize() picked among them, in any universe
ResultLeftTheUniverses ==
    (/\ pc = "step_ready"
     /\ \A k \in Kinds : IsSome(step.result[k])
     /\ \A l \in Kinds : ~IsSome(step'.result[l])) =>
        \A k \in Kinds : BddAnd(step'.universe[k], Unwrap(step.result[k])) = {}

\* C29: every state initialize() put into the result is out of every universe when
\* the result returns to None, so that each round of initialize and perform_fwd_step
\* or perform_bwd_step until the result is None shrinks the universes and the
\* rounds end with is_done() true, on every model.
RoundsRemoveTheirResult == [][ResultLeftTheUniverses]_vars

-----------------------------------------------------------------------------
(* Termination of reach_fwd and reach_bwd: the loop runs on to its return *)

\* the models whose variables have one bit each, and the three-valued ones of one
\* variable
TerminationModels ==
    {m \in Models : \A n \in DOMAIN m : MaxValues(m)[n] <= 1}
    \cup {SaturatorModel, CounterModel}

InitTermination == Constructed /\ model \in TerminationModels

NextTermination == ReachCall \/ ReachStep \/ ReachReturn

\* a sequential loop: the next iteration, and the return after the last one, are
\* executed
SpecTermination ==
    /\ InitTermination
    /\ [][NextTermination]_vars
    /\ WF_vars(ReachStep)
    /\ WF_vars(ReachReturn)

\* the bit patterns a BDD holds on the unprimed variables
PatternsOf(sys, set) == {a \cap StandardVariables(sys) : a \in set}

\* what the running call has added to its initial set are states of the system, so
\* there are no more of them than there are states
AddedAreStates ==
    pc = "reach" =>
        /\ BddAndNot(reach.result, reach.initial) \subseteq UnitVertexSet(system)
        /\ Cardinality(PatternsOf(system, reach.result) \ PatternsOf(system, reach.initial))
              <= Cardinality(States(model))

\* the result never shrinks, and the loop starts over only with a result that
\* has strictly grown
RestartOnlyAfterGrowth ==
    (pc = "reach" /\ pc' = "reach") =>
        /\ reach.result \subseteq reach'.result
        /\ reach'.pos <= reach.pos =>
              /\ reach'.result # reach.result
              /\ PatternsOf(system, reach'.result) # PatternsOf(system, reach.result)

\* C30: reach_fwd and reach_bwd terminate on every model: the result never
\* shrinks, each restart of the outer loop happens only after the result has
\* strictly grown by states of the finite state space, so there are at most as many
\* restarts as states, and the call returns.
ReachTerminates ==
    /\ []AddedAreStates
    /\ [][RestartOnlyAfterGrowth]_vars
    /\ (pc = "reach") ~> (pc = "returned")

\* witness of C30: a call has returned after it started over at least twice, the
\* result holding two states more than the initial set
ReachTerminatesWitness ==
    /\ pc = "returned"
    /\ reach.initial # {}
    /\ Cardinality(PatternsOf(system, reach.result) \ PatternsOf(system, reach.initial)) >= 2
    /\ reach.pos = Len(VisitOrder(system)) + 1

=============================================================================
